---- MODULE Spec2Model ----
(***************************************************************************)
(* AgentMemoryCollection (src/agentvector/collection.py): one collection   *)
(* over one engine table.  The engine table is a sequence of rows in       *)
(* insertion order; predicates sent to the engine are syntax trees that    *)
(* the engine evaluates in SQL's three-valued logic.                       *)
(*                                                                         *)
(* Optional values: NULL is <<>> (Python None / SQL NULL), a present value *)
(* v is <<v>>.  A Python dict is a function from the keys it holds.        *)
(* Ids are sequences of one-character strings; contents are strings;       *)
(* numbers (scores, epoch seconds) are integers.                           *)
(***************************************************************************)
EXTENDS Integers, Sequences, FiniteSets, TLC

VARIABLES
    table,                          \* the engine table: Seq of rows
    now,                            \* the reading time.time() returns
    uuid_count,                     \* how many uuid4 ids were handed out
    embedding_function,             \* NULL, or <<source column name>>
    update_last_accessed_on_query,  \* the collection's access-time flag
    calls,                          \* how many calls the collection has served
    last,                           \* the last call: op, args, result, table before
    db_tables,                      \* the engine's table directory: name -> rows
    collections_cache,              \* the store's _collections_cache: name -> instance
    instances,                      \* how many collection instances were constructed
    threads                         \* callers in the middle of a call: where each is

vars == <<table, now, uuid_count, embedding_function,
          update_last_accessed_on_query, calls, last,
          db_tables, collections_cache, instances, threads>>

\* one collection's variables, and the store's
collection_vars == <<table, now, uuid_count, embedding_function,
                     update_last_accessed_on_query>>
store_vars == <<db_tables, collections_cache, instances>>

config == <<embedding_function, update_last_accessed_on_query>>

\* ---------------------------------------------------------------- bounds
VectorDimension == 2
MaxCalls == 3
MaxTime == 2

\* ------------------------------------------------------- optional values
NULL == <<>>
Some(v) == <<v>>
Val(o) == o[1]

Has(d, k) == k \in DOMAIN d
Get(d, k) == IF k \in DOMAIN d THEN d[k] ELSE NULL
Put(d, k, v) == [x \in (DOMAIN d) \cup {k} |-> IF x = k THEN v ELSE d[x]]

\* Python truthiness of an optional string / id / number
TruthyStr(o) == o # NULL /\ Val(o) # ""
TruthyId(o) == o # NULL /\ Val(o) # <<>>
TruthyNum(o) == o # NULL /\ Val(o) # 0

\* Python truthiness of an optional filter text (see EmptyText)
TruthyText(o) == o # NULL /\ Val(o).k # "empty"

Fields == {"id", "vector", "content", "importance_score",
           "timestamp_created", "timestamp_last_accessed"}

Min(a, b) == IF a < b THEN a ELSE b

\* ------------------------------------------------------------ uuid4 ids
Digits == <<"0", "1", "2", "3", "4", "5", "6", "7", "8", "9">>
Uuid4(n) == <<"u", Digits[(n % 10) + 1]>>

\* --------------------------------------------- predicates and the engine
Cmp(op, col, v) == [k |-> "cmp", op |-> op, col |-> col, val |-> v]
IsNullP(col) == [k |-> "isnull", col |-> col]
Bool(op, args) == [k |-> "bool", op |-> op, args |-> args]
EmptyText == [k |-> "empty"]
ContainsP(col, v) == [k |-> "contains", col |-> col, val |-> v]

\* v occurs in s
SubText(v, s) ==
    \E i \in 1..(Len(s) - Len(v) + 1) : SubSeq(s, i, i + Len(v) - 1) = v

\* str(entry_id).replace("'", "''")
RECURSIVE EscapeQuotes(_)
EscapeQuotes(s) ==
    IF s = <<>> THEN <<>>
    ELSE IF Head(s) = "'" THEN <<"'", "'">> \o EscapeQuotes(Tail(s))
         ELSE <<Head(s)>> \o EscapeQuotes(Tail(s))

\* The engine reading the inside of a quoted literal: '' is one quote, a
\* lone quote ends the literal early, which is a syntax error (NULL).
RECURSIVE ParseLiteral(_)
ParseLiteral(s) ==
    IF s = <<>> THEN Some(<<>>)
    ELSE IF Head(s) = "'"
         THEN IF Len(s) >= 2 /\ s[2] = "'"
              THEN LET r == ParseLiteral(SubSeq(s, 3, Len(s)))
                   IN IF r = NULL THEN NULL ELSE Some(<<"'">> \o Val(r))
              ELSE NULL
         ELSE LET r == ParseLiteral(Tail(s))
              IN IF r = NULL THEN NULL ELSE Some(<<Head(s)>> \o Val(r))

\* three-valued evaluation of a predicate on a row: "T", "F" or "N"
And3(a, b) == IF a = "F" \/ b = "F" THEN "F"
              ELSE IF a = "N" \/ b = "N" THEN "N" ELSE "T"
Or3(a, b) == IF a = "T" \/ b = "T" THEN "T"
             ELSE IF a = "N" \/ b = "N" THEN "N" ELSE "F"

RECURSIVE Eval3(_, _)
Eval3(p, row) ==
    CASE p.k = "cmp" ->
           IF row[p.col] = NULL THEN "N"
           ELSE IF CASE p.op = "<" -> Val(row[p.col]) < p.val
                     [] p.op = "<=" -> Val(row[p.col]) <= p.val
                     [] p.op = ">" -> Val(row[p.col]) > p.val
                     [] p.op = ">=" -> Val(row[p.col]) >= p.val
                     [] p.op = "=" -> Val(row[p.col]) = p.val
                THEN "T" ELSE "F"
      [] p.k = "isnull" -> IF row[p.col] = NULL THEN "T" ELSE "F"
      [] p.k = "contains" ->
           IF row[p.col] = NULL THEN "N"
           ELSE IF SubText(p.val, Val(row[p.col])) THEN "T" ELSE "F"
      [] p.k = "bool" ->
           IF Len(p.args) = 1 THEN Eval3(p.args[1], row)
           ELSE LET rest == Eval3(Bool(p.op, Tail(p.args)), row)
                    first == Eval3(p.args[1], row)
                IN IF p.op = "AND" THEN And3(first, rest) ELSE Or3(first, rest)

Matches(p, row) == Eval3(p, row) = "T"

\* table.search().where(p): the matching rows, in table order
RECURSIVE SelectWhere(_, _)
SelectWhere(t, p) ==
    IF t = <<>> THEN <<>>
    ELSE IF Matches(p, Head(t)) THEN <<Head(t)>> \o SelectWhere(Tail(t), p)
         ELSE SelectWhere(Tail(t), p)

\* table.delete(p): the rows that stay
RECURSIVE DeleteWhere(_, _)
DeleteWhere(t, p) ==
    IF t = <<>> THEN <<>>
    ELSE IF Matches(p, Head(t)) THEN DeleteWhere(Tail(t), p)
         ELSE <<Head(t)>> \o DeleteWhere(Tail(t), p)

\* table.update(values={col: v}, where=p)
UpdateWhere(t, p, col, v) ==
    [i \in 1..Len(t) |-> IF Matches(p, t[i]) THEN [t[i] EXCEPT ![col] = v] ELSE t[i]]

\* ------------------------------------------------------- record preparer
\* a preparer that stamps the creation time over the caller's
FillDefaultsAlwaysStamp(d, uuid, ts) ==
    LET d1 == IF ~Has(d, "id") \/ ~TruthyId(d["id"])
              THEN Put(d, "id", Some(uuid)) ELSE d
    IN Put(d1, "timestamp_created", Some(ts))

\* _prepare_data_for_add, lines 100-101: generated id and creation time
FillDefaults(d, uuid, ts) ==
    LET d1 == IF ~Has(d, "id") \/ ~TruthyId(d["id"])
              THEN Put(d, "id", Some(uuid)) ELSE d
    IN IF ~Has(d1, "timestamp_created")
       THEN Put(d1, "timestamp_created", Some(ts)) ELSE d1

\* getattr(self.embedding_function, 'source_column', lambda: 'content')()
SourceColumn(ef) == Val(ef)

\* a preparer that reports a vector of the wrong length as an embedding failure
VectorResolutionWrongError(d, ef) ==
    IF Has(d, "vector") /\ d["vector"] # NULL
    THEN IF Len(Val(d["vector"])) # VectorDimension THEN "EmbeddingError" ELSE "ok"
    ELSE IF ~Has(d, "vector")
         THEN IF ef = NULL THEN "EmbeddingError"
              ELSE IF ~TruthyStr(Get(d, SourceColumn(ef))) THEN "EmbeddingError"
                   ELSE "ok"
         ELSE "ok"

\* _prepare_data_for_add, lines 103-111: "ok" or the error raised
VectorResolution(d, ef) ==
    IF Has(d, "vector") /\ d["vector"] # NULL
    THEN IF Len(Val(d["vector"])) # VectorDimension THEN "SchemaError" ELSE "ok"
    ELSE IF ~Has(d, "vector")
         THEN IF ef = NULL THEN "EmbeddingError"
              ELSE IF ~TruthyStr(Get(d, SourceColumn(ef))) THEN "EmbeddingError"
                   ELSE "ok"
         ELSE "ok"

\* DynamicSchema.model_validate: id a string, vector a float sequence of the
\* collection's dimension (absent when the engine is to embed it),
\* timestamp_created a float, the other fields optional.
ModelValidate(d) ==
    /\ Has(d, "id") /\ d["id"] # NULL
    /\ Has(d, "vector") => /\ d["vector"] # NULL
                           /\ Len(Val(d["vector"])) = VectorDimension
    /\ Has(d, "timestamp_created") /\ d["timestamp_created"] # NULL

\* _prepare_data_for_add: [error, data]
PrepareDataForAdd(d, ef, uuid, ts) ==
    LET data == FillDefaults(d, uuid, ts)
        v == VectorResolution(data, ef)
    IN [error |-> IF v # "ok" THEN v
                  ELSE IF ~ModelValidate(data) THEN "SchemaError" ELSE "ok",
        data |-> data]

\* the embedding function's generate(text): a vector of the dimension
Embed(text) == [i \in 1..VectorDimension |-> 1]

\* table.add([entry_data]): the row the engine stores for a validated dict
RowOf(d, ef) ==
    [f \in Fields |->
        IF f = "vector" /\ ~Has(d, "vector")
        THEN Some(Embed(Val(d[SourceColumn(ef)])))
        ELSE Get(d, f)]

EngineAdd(t, d, ef) == Append(t, RowOf(d, ef))

\* ------------------------------------------------------------ call record
NoPrev == [op |-> "none", args |-> <<>>, result |-> NULL, error |-> "ok"]
Brief(l) == [op |-> l.op, args |-> l.args, result |-> l.result, error |-> l.error]

\* touched: the call reached the storage engine; at: the clock when it began
Call(op, args, result, error, touched, before, prev) ==
    [op |-> op, args |-> args, result |-> result, error |-> error,
     touched |-> touched, before |-> before, prev |-> prev, at |-> now]

\* the call before, kept when it was an add that returned this id or a delete
\* of this id
PrevFor(entry_id) ==
    IF \/ last.op = "add" /\ last.result = Some(entry_id)
       \/ last.op = "delete" /\ last.error = "ok" /\ last.args.entry_id = Some(entry_id)
    THEN Brief(last) ELSE NoPrev

\* ------------------------------------------------------------------- add
\* add(**kwargs), lines 118-123
Add(d) ==
    LET uuid == Uuid4(uuid_count)
        r == PrepareDataForAdd(d, embedding_function, uuid, now)
        generated == ~Has(d, "id") \/ ~TruthyId(d["id"])
    IN /\ calls' = calls + 1
       /\ IF r.error = "ok"
          THEN /\ table' = EngineAdd(table, r.data, embedding_function)
               /\ uuid_count' = IF generated THEN uuid_count + 1 ELSE uuid_count
               /\ last' = Call("add", d, r.data["id"], "ok", TRUE, table, NoPrev)
          ELSE /\ table' = table
               /\ uuid_count' = uuid_count
               /\ last' = Call("add", d, NULL, r.error, FALSE, table, NoPrev)
       /\ UNCHANGED <<now, config>>

\* ------------------------------------------------------------- add_batch
\* a batch preparer that stops at the first invalid entry and keeps the rest
RECURSIVE PrepareBatchSkipsInvalid(_, _, _, _)
PrepareBatchSkipsInvalid(entries, ef, n, ts) ==
    IF entries = <<>> THEN [error |-> "ok", processed |-> <<>>, uuids |-> n]
    ELSE LET r == PrepareDataForAdd(Head(entries), ef, Uuid4(n), ts)
         IN IF r.error # "ok" THEN [error |-> "ok", processed |-> <<>>, uuids |-> n]
            ELSE LET n1 == IF ~Has(Head(entries), "id") \/ ~TruthyId(Head(entries)["id"])
                           THEN n + 1 ELSE n
                     rest == PrepareBatchSkipsInvalid(Tail(entries), ef, n1, ts)
                 IN [error |-> "ok", processed |-> <<r.data>> \o rest.processed,
                     uuids |-> rest.uuids]

\* add_batch, line 128: _prepare_data_for_add on each entry in order; the
\* first entry that fails raises.  n counts the uuid4 ids handed out.
RECURSIVE PrepareBatch(_, _, _, _)
PrepareBatch(entries, ef, n, ts) ==
    IF entries = <<>> THEN [error |-> "ok", processed |-> <<>>, uuids |-> n]
    ELSE LET r == PrepareDataForAdd(Head(entries), ef, Uuid4(n), ts)
         IN IF r.error # "ok"
            THEN [error |-> r.error, processed |-> <<>>, uuids |-> n]
            ELSE LET n1 == IF ~Has(Head(entries), "id") \/ ~TruthyId(Head(entries)["id"])
                           THEN n + 1 ELSE n
                     rest == PrepareBatch(Tail(entries), ef, n1, ts)
                 IN IF rest.error # "ok" THEN rest
                    ELSE [error |-> "ok", processed |-> <<r.data>> \o rest.processed,
                          uuids |-> rest.uuids]

\* self.table.add(processed): one bulk insert, in order
RECURSIVE EngineAddAll(_, _, _)
EngineAddAll(t, processed, ef) ==
    IF processed = <<>> THEN t
    ELSE EngineAddAll(EngineAdd(t, Head(processed), ef), Tail(processed), ef)

\* add_batch(entries), lines 125-131
AddBatch(entries) ==
    LET r == PrepareBatch(entries, embedding_function, uuid_count, now)
    IN /\ calls' = calls + 1
       /\ IF entries = <<>>
          THEN /\ last' = Call("add_batch", entries, Some(<<>>), "ok", FALSE, table,
                               NoPrev)
               /\ UNCHANGED <<table, uuid_count>>
          ELSE IF r.error = "ok"
               THEN /\ table' = EngineAddAll(table, r.processed, embedding_function)
                    /\ uuid_count' = r.uuids
                    /\ last' = Call("add_batch", entries,
                                    Some([i \in 1..Len(r.processed) |->
                                             Val(r.processed[i]["id"])]),
                                    "ok", TRUE, table, NoPrev)
               ELSE /\ last' = Call("add_batch", entries, NULL, r.error, FALSE, table,
                                    NoPrev)
                    /\ UNCHANGED <<table, uuid_count>>
       /\ UNCHANGED <<now, config>>

\* ------------------------------------------------------------- get_by_id
\* f"id = '{text}'" as the engine reads it: NULL when it does not parse
IdEquals(text) ==
    LET lit == ParseLiteral(text)
    IN IF lit = NULL THEN NULL ELSE Some(Cmp("=", "id", Val(lit)))

Falsy(select_columns) == select_columns = NULL \/ Val(select_columns) = {}

\* q_obj.select(list(set(select_columns))) on one row
Project(row, select_columns) ==
    IF Falsy(select_columns) THEN row
    ELSE [c \in Val(select_columns) |-> row[c]]

Drop(data, k) == [c \in (DOMAIN data) \ {k} |-> data[c]]

\* get_by_id, lines 187-188
StripVector(data, select_columns) ==
    IF Falsy(select_columns)
       \/ ("vector" \notin Val(select_columns) /\ "vector" \in DOMAIN data)
    THEN Drop(data, "vector")
    ELSE data

\* an access-time update that rewrites the creation time too
UpdateLastAccessedTouchesCreated(t, entry_id, ts) ==
    LET w == IdEquals(entry_id)
    IN IF w = NULL THEN t
       ELSE UpdateWhere(UpdateWhere(t, Val(w), "timestamp_last_accessed", Some(ts)),
                        Val(w), "timestamp_created", Some(ts))

\* _update_last_accessed(entry_ids), lines 133-138, for one id: the ids are
\* quoted as they are; a predicate the engine cannot parse is a warning
UpdateLastAccessed(t, entry_id, ts) ==
    LET w == IdEquals(entry_id)
    IN IF w = NULL THEN t
       ELSE UpdateWhere(t, Val(w), "timestamp_last_accessed", Some(ts))

\* get_by_id, lines 191-194: the record handed back; t2 is the clock's
\* reading at line 194
Returned(row, select_columns, update, t2) ==
    LET data == StripVector(Project(row, select_columns), select_columns)
    IN IF update /\ (Falsy(select_columns)
                     \/ "timestamp_last_accessed" \in Val(select_columns))
       THEN Put(data, "timestamp_last_accessed", Some(t2))
       ELSE data

\* a lookup that lets the engine's failure reach the caller
GetByIdUncaught(fault) == [result |-> NULL, error |-> "EngineError"]

\* get_by_id, line 196: whatever the engine raised inside the try is printed
\* as a warning and the call returns None
GetByIdCaught(fault) == [result |-> NULL, error |-> "ok"]

\* get_by_id(entry_id, select_columns), lines 176-196.  fault is where the
\* engine raises: "none", "lookup" (lines 180-183, inside the try) or
\* "update" (line 137, inside _update_last_accessed's own try)
GetById(entry_id, select_columns, fault, t2) ==
    LET w == IdEquals(EscapeQuotes(entry_id))
        found == IF w = NULL THEN <<>> ELSE SelectWhere(table, Val(w))
        args == [entry_id |-> entry_id, select_columns |-> select_columns,
                 fault |-> fault]
        update == update_last_accessed_on_query
        caught == GetByIdCaught(fault)
    IN /\ calls' = calls + 1
       /\ IF fault = "lookup"
          THEN /\ last' = Call("get_by_id", args, caught.result, caught.error,
                               TRUE, table, PrevFor(entry_id))
               /\ UNCHANGED <<table, now>>
          ELSE IF found = <<>>
               THEN /\ last' = Call("get_by_id", args, NULL, "ok", TRUE, table,
                                    PrevFor(entry_id))
                    /\ UNCHANGED <<table, now>>
               ELSE /\ table' = IF update /\ fault # "update"
                                THEN UpdateLastAccessed(table, entry_id, now)
                                ELSE table
                    /\ now' = IF update THEN t2 ELSE now
                    /\ last' = Call("get_by_id", args,
                                    Some(Returned(found[1], select_columns, update, t2)),
                                    "ok", TRUE, table, PrevFor(entry_id))
       /\ UNCHANGED <<uuid_count, config>>

\* ----------------------------------------------------------------- query
\* squared distance between a stored vector and the query vector
RECURSIVE Distance(_, _)
Distance(v, qv) ==
    IF v = <<>> \/ qv = <<>> THEN 0
    ELSE (Head(v) - Head(qv)) * (Head(v) - Head(qv)) + Distance(Tail(v), Tail(qv))

\* the engine's ranking: nearest first, ties in table order
RECURSIVE Rank(_, _)
Rank(t, qv) ==
    IF t = <<>> THEN <<>>
    ELSE LET d(i) == Distance(Val(t[i]["vector"]), qv)
             best == CHOOSE i \in 1..Len(t) :
                        /\ \A j \in 1..Len(t) : d(i) <= d(j)
                        /\ \A j \in 1..(i - 1) : d(j) > d(i)
         IN <<t[best]>> \o Rank(SubSeq(t, 1, best - 1) \o SubSeq(t, best + 1, Len(t)), qv)

\* table.search(query=query_text, vector=query_vector).limit(k).where(filter):
\* the k nearest of the rows the filter keeps; the vector given is used, a
\* text is embedded by the collection's embedding function
EngineSearch(t, query_vector, query_text, k, filter_sql) ==
    LET qv == IF query_vector # NULL THEN Val(query_vector)
              ELSE Embed(Val(query_text))
        kept == IF TruthyText(filter_sql) THEN SelectWhere(t, Val(filter_sql)) ELSE t
        ranked == Rank(kept, qv)
    IN SubSeq(ranked, 1, Min(k, Len(ranked)))

\* query, lines 153-157: the projection sent to the engine, NULL for none
ActualSelect(select_columns, include_vector) ==
    IF Falsy(select_columns) THEN NULL
    ELSE IF include_vector THEN Some(Val(select_columns) \cup {"vector"})
         ELSE select_columns

\* a strip that drops the vector whenever the flag is off
StripQueryVectorByFlag(data, select_columns, include_vector) ==
    IF ~include_vector THEN Drop(data, "vector") ELSE data

\* query, lines 161-162: res.pop('vector', None)
StripQueryVector(data, select_columns, include_vector) ==
    IF ~include_vector
       /\ (Falsy(select_columns) \/ "vector" \notin Val(select_columns))
    THEN Drop(data, "vector")
    ELSE data

\* query, line 164: the ids of the records that carry one
RECURSIVE AccessedIds(_)
AccessedIds(results_list) ==
    IF results_list = <<>> THEN {}
    ELSE (IF "id" \in DOMAIN Head(results_list)
          THEN {Val(Head(results_list)["id"])} ELSE {})
         \cup AccessedIds(Tail(results_list))

\* _update_last_accessed(entry_ids), lines 133-138: one update whose
\* predicate lists the ids as they are; if the engine cannot parse it, a
\* warning and no update
UpdateLastAccessedIn(t, entry_ids, ts) ==
    IF \E e \in entry_ids : ParseLiteral(e) = NULL THEN t
    ELSE [i \in 1..Len(t) |->
             IF \E e \in entry_ids : t[i]["id"] = ParseLiteral(e)
             THEN [t[i] EXCEPT !["timestamp_last_accessed"] = Some(ts)]
             ELSE t[i]]

\* query, lines 168-171: the records handed back
Stamped(results_list, accessed_ids, actual_select, ts) ==
    [i \in 1..Len(results_list) |->
        IF /\ "id" \in DOMAIN results_list[i]
           /\ Val(results_list[i]["id"]) \in accessed_ids
           /\ (actual_select = NULL
               \/ "timestamp_last_accessed" \in Val(actual_select))
        THEN Put(results_list[i], "timestamp_last_accessed", Some(ts))
        ELSE results_list[i]]

\* query, lines 143-148: the error raised before any search, or "ok"
QueryChecks(query_vector, query_text, ef) ==
    IF query_vector = NULL /\ query_text = NULL THEN "ValueError"
    ELSE IF query_vector = NULL /\ TruthyStr(query_text) /\ ef = NULL
         THEN "EmbeddingError"
         ELSE IF /\ query_vector # NULL
                 /\ Val(query_vector) # <<>>
                 /\ Len(Val(query_vector)) # VectorDimension
              THEN "SchemaError"
              ELSE "ok"

\* a vector the engine can search with
Searchable(query_vector) ==
    query_vector = NULL \/ Len(Val(query_vector)) = VectorDimension

\* query(query_vector, query_text, k, filter_sql, select_columns,
\* include_vector), lines 140-174.  fault is where the engine raises: "none",
\* "search" (lines 150-157, outside the try), "to_df" (line 160, inside it)
\* or "update" (line 137, inside _update_last_accessed's own try); t2 is the
\* clock's reading at line 167.
Query(a, fault, t2) ==
    LET checks == QueryChecks(a.query_vector, a.query_text, embedding_function)
        actual_select == ActualSelect(a.select_columns, a.include_vector)
        found == EngineSearch(table, a.query_vector, a.query_text, a.k, a.filter_sql)
        results_list ==
            [i \in 1..Len(found) |->
                StripQueryVector(Project(found[i], actual_select),
                                 a.select_columns, a.include_vector)]
        accessed_ids == AccessedIds(results_list)
        args == Put(a, "fault", fault)
        update == /\ update_last_accessed_on_query
                  /\ results_list # <<>>
                  /\ accessed_ids # {}
    IN /\ calls' = calls + 1
       /\ IF checks # "ok"
          THEN /\ last' = Call("query", args, NULL, checks, FALSE, table, NoPrev)
               /\ UNCHANGED <<table, now>>
          ELSE IF fault = "search"
               THEN /\ last' = Call("query", args, NULL, "EngineError", TRUE, table,
                                    NoPrev)
                    /\ UNCHANGED <<table, now>>
               ELSE IF fault = "to_df"
                    THEN /\ last' = Call("query", args, NULL, "QueryError", TRUE, table,
                                         NoPrev)
                         /\ UNCHANGED <<table, now>>
                    ELSE /\ table' = IF update /\ fault # "update"
                                     THEN UpdateLastAccessedIn(table, accessed_ids, now)
                                     ELSE table
                         /\ now' = IF update THEN t2 ELSE now
                         /\ last' = Call("query", args,
                                         Some(IF update
                                              THEN Stamped(results_list, accessed_ids,
                                                           actual_select, t2)
                                              ELSE results_list),
                                         "ok", TRUE, table, NoPrev)
       /\ UNCHANGED <<uuid_count, config>>

\* ----------------------------------------------- structured filters
\* a structured filter: {field: value}, {field: {op: value}}, {"$and": [...]}
\* and {"$or": [...]}
FieldIs(field, value) == [k |-> "field", field |-> field, op |-> "", value |-> value]
FieldOp(field, op, value) == [k |-> "field", field |-> field, op |-> op, value |-> value]
AllOf(children) == [k |-> "$and", args |-> children]
AnyOf(children) == [k |-> "$or", args |-> children]

\* the words of a predicate text: conditions, connectives and parentheses
Tok(w) == [k |-> w]

OperatorKeys == {"", "$gt", "$gte", "$lt", "$lte", "$contains"}

RECURSIVE Recognized(_)
Recognized(f) ==
    IF f.k = "field" THEN f.op \in OperatorKeys
    ELSE \A i \in 1..Len(f.args) : Recognized(f.args[i])

\* one condition: numbers as they are, text quoted with its quotes doubled
Condition(f) ==
    LET v == IF f.field = "id" THEN Val(ParseLiteral(EscapeQuotes(f.value)))
             ELSE f.value
    IN CASE f.op = "" -> Cmp("=", f.field, v)
         [] f.op = "$gt" -> Cmp(">", f.field, v)
         [] f.op = "$gte" -> Cmp(">=", f.field, v)
         [] f.op = "$lt" -> Cmp("<", f.field, v)
         [] f.op = "$lte" -> Cmp("<=", f.field, v)
         [] f.op = "$contains" -> ContainsP(f.field, v)

\* a compiler that joins the children without parentheses
RECURSIVE CompileFilterFlat(_)
CompileFilterFlat(f) ==
    IF f.k = "field" THEN <<Condition(f)>>
    ELSE LET word == IF f.k = "$and" THEN "AND" ELSE "OR"
             first == CompileFilterFlat(f.args[1])
         IN IF Len(f.args) = 1 THEN first
            ELSE first \o <<Tok(word)>>
                 \o CompileFilterFlat([f EXCEPT !.args = Tail(f.args)])

\* the predicate text of a structured filter: each child of $and / $or is
\* compiled, put in parentheses, and the children are joined by the connective
RECURSIVE CompileFilter(_)
CompileFilter(f) ==
    IF f.k = "field" THEN <<Condition(f)>>
    ELSE LET word == IF f.k = "$and" THEN "AND" ELSE "OR"
             first == <<Tok("(")>> \o CompileFilter(f.args[1]) \o <<Tok(")")>>
         IN IF Len(f.args) = 1 THEN first
            ELSE first \o <<Tok(word)>>
                 \o CompileFilter([f EXCEPT !.args = Tail(f.args)])

\* the engine reading a predicate text: OR binds loosest, then AND, then
\* parentheses
Depth(ts, i) ==
    Cardinality({j \in 1..(i - 1) : ts[j].k = "("})
    - Cardinality({j \in 1..(i - 1) : ts[j].k = ")"})
TopLevel(ts, word) == {i \in 1..Len(ts) : ts[i].k = word /\ Depth(ts, i) = 0}
First(is) == CHOOSE i \in is : \A j \in is : i <= j

RECURSIVE EngineParse(_)
EngineParse(ts) ==
    LET split(word) ==
            LET i == First(TopLevel(ts, word))
            IN Bool(word, <<EngineParse(SubSeq(ts, 1, i - 1)),
                            EngineParse(SubSeq(ts, i + 1, Len(ts)))>>)
    IN IF TopLevel(ts, "OR") # {} THEN split("OR")
       ELSE IF TopLevel(ts, "AND") # {} THEN split("AND")
            ELSE IF ts[1].k = "(" THEN EngineParse(SubSeq(ts, 2, Len(ts) - 1))
                 ELSE ts[1]

\* the filter_sql a structured filter stands for; none for an empty filter
CompiledFilter(filters) ==
    IF filters = NULL THEN NULL ELSE Some(EngineParse(CompileFilter(Val(filters))))

\* query(..., filters=...): the structured filter is compiled and handed to
\* the search with the other arguments; an operator key that is not
\* recognized is a QueryError
QueryFilters(a, filters, t2) ==
    IF filters # NULL /\ ~Recognized(Val(filters))
    THEN /\ calls' = calls + 1
         /\ last' = Call("query", Put(Put(a, "filters", filters), "fault", "none"),
                         NULL, "QueryError", FALSE, table, NoPrev)
         /\ UNCHANGED <<table, now, uuid_count, config>>
    ELSE Query(Put([a EXCEPT !.filter_sql = CompiledFilter(filters)],
                   "filters", filters),
               "none", t2)

\* ---------------------------------------------------------------- delete
\* delete, lines 202-205: the predicate sent to the engine
DeleteFilter(entry_id, filter_sql) ==
    IF TruthyId(entry_id)
    THEN LET id_f == Val(IdEquals(EscapeQuotes(Val(entry_id))))
         IN IF TruthyText(filter_sql)
            THEN Some(Bool("AND", <<id_f, Val(filter_sql)>>))
            ELSE Some(id_f)
    ELSE filter_sql

\* delete(entry_id, filter_sql), lines 198-214: [error, result, table]
DeleteCall(t, entry_id, filter_sql) ==
    IF ~TruthyId(entry_id) /\ ~TruthyText(filter_sql)
    THEN [error |-> "ValueError", result |-> NULL, table |-> t]
    ELSE LET final_filter == DeleteFilter(entry_id, filter_sql)
         IN IF ~TruthyText(final_filter)
            THEN [error |-> "ValueError", result |-> NULL, table |-> t]
            ELSE LET num_matched == Len(SelectWhere(t, Val(final_filter)))
                 IN [error |-> "ok", result |-> Some(num_matched),
                     table |-> IF num_matched > 0
                               THEN DeleteWhere(t, Val(final_filter)) ELSE t]

Delete(entry_id, filter_sql) ==
    LET r == DeleteCall(table, entry_id, filter_sql)
    IN /\ calls' = calls + 1
       /\ table' = r.table
       /\ last' = Call("delete", [entry_id |-> entry_id, filter_sql |-> filter_sql],
                       r.result, r.error, r.error = "ok", table,
                       IF entry_id = NULL THEN NoPrev ELSE PrevFor(Val(entry_id)))
       /\ UNCHANGED <<now, uuid_count, config>>

\* ----------------------------------------------------------------- count
\* count(filter_sql), lines 216-224
CountCall(t, filter_sql) ==
    IF TruthyText(filter_sql) THEN Len(SelectWhere(t, Val(filter_sql))) ELSE Len(t)

Count(filter_sql) ==
    /\ calls' = calls + 1
    /\ last' = Call("count", [filter_sql |-> filter_sql],
                    Some(CountCall(table, filter_sql)), "ok", TRUE, table, NoPrev)
    /\ UNCHANGED <<table, now, uuid_count, config>>

\* ----------------------------------------------------------------- prune
\* filter_logic.upper()
Upper(s) == CASE s = "and" -> "AND" [] s = "or" -> "OR" [] OTHER -> s

\* prune_memories, lines 234-237: one condition per threshold given
AgeCond(max_age_seconds, ts) ==
    Cmp("<", "timestamp_created", ts - max_age_seconds)
\* an importance condition that also takes a score equal to the threshold
ImportanceCondInclusive(min_importance_score) ==
    Bool("OR", <<Cmp("<=", "importance_score", min_importance_score),
                 IsNullP("importance_score")>>)
ImportanceCond(min_importance_score) ==
    Bool("OR", <<Cmp("<", "importance_score", min_importance_score),
                 IsNullP("importance_score")>>)
\* a staleness condition that leaves never-accessed entries to SQL's NULL
StalenessCondNoNull(max_last_accessed_seconds, ts) ==
    Bool("OR", <<Cmp("<", "timestamp_last_accessed", ts - max_last_accessed_seconds)>>)
StalenessCond(max_last_accessed_seconds, ts) ==
    Bool("OR", <<Cmp("<", "timestamp_last_accessed", ts - max_last_accessed_seconds),
                 IsNullP("timestamp_last_accessed")>>)

PruneConds(a, ts) ==
    (IF a.max_age_seconds # NULL
     THEN <<AgeCond(Val(a.max_age_seconds), ts)>> ELSE <<>>)
    \o (IF a.min_importance_score # NULL
        THEN <<ImportanceCond(Val(a.min_importance_score))>> ELSE <<>>)
    \o (IF a.max_last_accessed_seconds # NULL
        THEN <<StalenessCond(Val(a.max_last_accessed_seconds), ts)>> ELSE <<>>)

\* prune_memories, lines 239-241: the predicate, Some(EmptyText) for ""
PruneFilter(a, ts) ==
    LET conds == PruneConds(a, ts)
        main_filter == IF conds # <<>> THEN Some(Bool(Upper(a.filter_logic), conds))
                       ELSE Some(EmptyText)
        addon == a.custom_filter_sql_addon
    IN IF TruthyText(main_filter) /\ TruthyText(addon)
       THEN Some(Bool("AND", <<Val(main_filter), Val(addon)>>))
       ELSE IF TruthyText(main_filter) THEN main_filter
            ELSE IF TruthyText(addon) THEN addon ELSE Some(EmptyText)

\* prune_memories, line 230: not any([...])
NothingToDo(a) ==
    ~ \/ TruthyNum(a.max_age_seconds)
      \/ a.min_importance_score # NULL
      \/ TruthyNum(a.max_last_accessed_seconds)
      \/ TruthyText(a.custom_filter_sql_addon)

\* a prune that deletes on a dry run too
PruneCallIgnoresDryRun(t, a, ts) ==
    IF NothingToDo(a) THEN [result |-> 0, table |-> t, touched |-> FALSE]
    ELSE LET final_filter == PruneFilter(a, ts)
         IN IF ~TruthyText(final_filter)
            THEN [result |-> 0, table |-> t, touched |-> FALSE]
            ELSE LET num_to_prune == CountCall(t, final_filter)
                 IN IF num_to_prune > 0
                    THEN LET r == DeleteCall(t, NULL, final_filter)
                         IN [result |-> Val(r.result), table |-> r.table,
                             touched |-> TRUE]
                    ELSE [result |-> num_to_prune, table |-> t, touched |-> TRUE]

\* prune_memories, lines 226-249: [result, table, touched]
PruneCall(t, a, ts) ==
    IF NothingToDo(a) THEN [result |-> 0, table |-> t, touched |-> FALSE]
    ELSE LET final_filter == PruneFilter(a, ts)
         IN IF ~TruthyText(final_filter)
            THEN [result |-> 0, table |-> t, touched |-> FALSE]
            ELSE LET num_to_prune == CountCall(t, final_filter)
                 IN IF ~a.dry_run /\ num_to_prune > 0
                    THEN LET r == DeleteCall(t, NULL, final_filter)
                         IN [result |-> Val(r.result), table |-> r.table,
                             touched |-> TRUE]
                    ELSE [result |-> num_to_prune, table |-> t, touched |-> TRUE]

\* a is the real prune a caller makes right after its dry run
FollowsDryRun(a) ==
    /\ last.op = "prune_memories"
    /\ last.args.dry_run
    /\ a = [last.args EXCEPT !.dry_run = FALSE]

PruneMemories(a) ==
    LET r == PruneCall(table, a, now)
    IN /\ calls' = calls + 1
       /\ table' = r.table
       /\ last' = Call("prune_memories", a, Some(r.result), "ok", r.touched, table,
                       IF FollowsDryRun(a) THEN Brief(last) ELSE NoPrev)
       /\ UNCHANGED <<now, uuid_count, config>>

\* ----------------------------------------------------------------- store
\* AgentVectorStore (src/agentvector/store.py) over the engine's table
\* directory.  An instance is [handle, name]: two instances are the very same
\* object when their handles are equal.
Instance(h, name) == [handle |-> h, name |-> name]

\* a store call: its arguments and result, and the store before it
StoreCall(op, args, result, error) ==
    [op |-> op, args |-> args, result |-> result, error |-> error,
     tables_before |-> db_tables, cache_before |-> collections_cache,
     made_before |-> instances]

\* the arguments of AgentMemoryCollection(...): db_connection says whether a
\* connection is given, base_schema names the class given, ef_dimension is the
\* ndims() of the embedding function given, if one is
ConstructorArgs(name, vector_dimension, recreate) ==
    [name |-> name, vector_dimension |-> vector_dimension, recreate |-> recreate,
     db_connection |-> TRUE, base_schema |-> "MemoryEntrySchema",
     ef_dimension |-> NULL]

\* AgentMemoryCollection.__init__, lines 25-48: the error raised before the
\* engine is touched, or "ok"
ConstructorChecks(a) ==
    IF ~a.db_connection THEN "InitializationError"
    ELSE IF /\ a.ef_dimension # NULL
            /\ TruthyNum(a.vector_dimension)
            /\ a.vector_dimension # a.ef_dimension
         THEN "InitializationError"
         ELSE IF ~TruthyNum(IF a.ef_dimension # NULL THEN a.ef_dimension
                            ELSE a.vector_dimension)
              THEN "InitializationError"
              ELSE IF a.base_schema # "MemoryEntrySchema" THEN "SchemaError"
                   ELSE "ok"

\* a constructor that opens the table it finds, recreate or not
NewCollectionKeepsTable(tabs, a, fault) ==
    IF ConstructorChecks(a) # "ok"
    THEN [error |-> ConstructorChecks(a), tables |-> tabs]
    ELSE [error |-> "ok",
          tables |-> IF a.name \notin DOMAIN tabs THEN Put(tabs, a.name, <<>>)
                     ELSE tabs]

\* AgentMemoryCollection.__init__ and _ensure_table_exists, lines 25-94:
\* recreate drops the table that exists; the table is created (mode
\* "create") when the directory does not hold it, opened otherwise.  fault is
\* the engine call that raises: "none", "drop" (line 54), "create" (line 87)
\* or "open" (line 92).  [error, tables]
NewCollection(tabs, a, fault) ==
    IF ConstructorChecks(a) # "ok"
    THEN [error |-> ConstructorChecks(a), tables |-> tabs]
    ELSE LET held == a.recreate /\ a.name \in DOMAIN tabs
         IN IF held /\ fault = "drop"
            THEN [error |-> "OperationError", tables |-> tabs]
            ELSE LET dropped == IF held THEN Drop(tabs, a.name) ELSE tabs
                 IN IF a.name \notin DOMAIN dropped
                    THEN IF fault = "create"
                         THEN [error |-> "InitializationError", tables |-> dropped]
                         ELSE [error |-> "ok",
                               tables |-> Put(dropped, a.name, <<>>)]
                    ELSE IF fault = "open"
                         THEN [error |-> "InitializationError", tables |-> dropped]
                         ELSE [error |-> "ok", tables |-> dropped]

\* a cache test that forgets recreate
CacheHitIgnoringRecreate(cache, name, recreate) == name \in DOMAIN cache

\* get_or_create_collection, line 28
CacheHit(cache, name, recreate) == name \in DOMAIN cache /\ ~recreate

\* get_or_create_collection(name, ..., recreate), lines 20-41; a constructor
\* that raises leaves the cache as it was, and the directory as the
\* constructor left it
GetOrCreateCollection(a, fault) ==
    LET args == Put(a, "fault", fault)
    IN /\ calls' = calls + 1
       /\ IF CacheHit(collections_cache, a.name, a.recreate)
          THEN /\ last' = StoreCall("get_or_create_collection", args,
                                    Some(collections_cache[a.name]), "ok")
               /\ UNCHANGED store_vars
          ELSE LET r == NewCollection(db_tables, a, fault)
                   collection_instance == Instance(instances + 1, a.name)
               IN /\ db_tables' = r.tables
                  /\ IF r.error = "ok"
                     THEN /\ instances' = instances + 1
                          /\ collections_cache' =
                                 Put(collections_cache, a.name, collection_instance)
                          /\ last' = StoreCall("get_or_create_collection", args,
                                               Some(collection_instance), "ok")
                     ELSE /\ last' = StoreCall("get_or_create_collection", args,
                                               NULL, r.error)
                          /\ UNCHANGED <<collections_cache, instances>>
       /\ UNCHANGED collection_vars

\* AgentMemoryCollection(db, name, ..., recreate) constructed by the caller,
\* outside the store's cache
ConstructCollection(a, fault) ==
    LET args == Put(a, "fault", fault)
        r == NewCollection(db_tables, a, fault)
    IN /\ calls' = calls + 1
       /\ db_tables' = r.tables
       /\ IF r.error = "ok"
          THEN /\ instances' = instances + 1
               /\ last' = StoreCall("AgentMemoryCollection", args,
                                    Some(Instance(instances + 1, a.name)), "ok")
          ELSE /\ instances' = instances
               /\ last' = StoreCall("AgentMemoryCollection", args, NULL, r.error)
       /\ UNCHANGED <<collections_cache, collection_vars>>

\* a lookup that builds a manager for a table it finds on disk
GetCollectionRehydrates(cache, tabs, name) ==
    IF name \in DOMAIN cache THEN Some(cache[name])
    ELSE IF name \in DOMAIN tabs THEN Some(Instance(0, name)) ELSE NULL

\* get_collection(name), lines 43-57: the value returned
GetCollectionCall(cache, tabs, name) ==
    IF name \in DOMAIN cache THEN Some(cache[name]) ELSE NULL

GetCollection(name) ==
    /\ calls' = calls + 1
    /\ last' = StoreCall("get_collection", [name |-> name],
                         GetCollectionCall(collections_cache, db_tables, name), "ok")
    /\ UNCHANGED <<store_vars, collection_vars>>

\* list_collections(), lines 59-61
ListCollections ==
    /\ calls' = calls + 1
    /\ last' = StoreCall("list_collections", <<>>, Some(DOMAIN db_tables), "ok")
    /\ UNCHANGED <<store_vars, collection_vars>>

\* a delete that leaves the cached manager in place
DeleteCollectionKeepsCache(cache, tabs, name, fault) ==
    [result |-> Some(TRUE), error |-> "ok", cache |-> cache,
     tables |-> IF name \notin DOMAIN tabs THEN tabs ELSE Drop(tabs, name)]

\* delete_collection(name), lines 63-70: [result, error, cache, tables].  The
\* cache entry goes first (line 64); fault is the engine call that raises:
\* "none", "table_names" (line 65, outside the try) or "drop" (line 67)
DeleteCollectionCall(cache, tabs, name, fault) ==
    LET cache1 == IF name \in DOMAIN cache THEN Drop(cache, name) ELSE cache
    IN IF fault = "table_names"
       THEN [result |-> NULL, error |-> "EngineError", cache |-> cache1,
             tables |-> tabs]
       ELSE IF name \notin DOMAIN tabs
            THEN [result |-> Some(TRUE), error |-> "ok", cache |-> cache1,
                  tables |-> tabs]
            ELSE IF fault = "drop"
                 THEN [result |-> NULL, error |-> "OperationError",
                       cache |-> cache1, tables |-> tabs]
                 ELSE [result |-> Some(TRUE), error |-> "ok", cache |-> cache1,
                       tables |-> Drop(tabs, name)]

\* the call before deleted the table of the same name
DeletedBefore(name) ==
    /\ last.op = "delete_collection"
    /\ last.error = "ok"
    /\ last.args.name = name
    /\ name \in DOMAIN last.tables_before

DeleteCollection(name, fault) ==
    LET r == DeleteCollectionCall(collections_cache, db_tables, name, fault)
    IN /\ calls' = calls + 1
       /\ collections_cache' = r.cache
       /\ db_tables' = r.tables
       /\ last' = StoreCall("delete_collection",
                            [name |-> name, again |-> DeletedBefore(name),
                             fault |-> fault],
                            r.result, r.error)
       /\ UNCHANGED <<instances, collection_vars>>

\* add(**kwargs) on the cached manager of a name, lines 118-123
CollectionAdd(name, d) ==
    LET r == PrepareDataForAdd(d, NULL, Uuid4(uuid_count), now)
    IN /\ name \in DOMAIN collections_cache
       /\ name \in DOMAIN db_tables
       /\ calls' = calls + 1
       /\ db_tables' = IF r.error = "ok"
                       THEN [db_tables EXCEPT ![name] = EngineAdd(@, r.data, NULL)]
                       ELSE db_tables
       /\ last' = StoreCall("add", [name |-> name, kwargs |-> d],
                            IF r.error = "ok" THEN r.data["id"] ELSE NULL, r.error)
       /\ UNCHANGED <<collections_cache, instances, collection_vars>>

\* ------------------------------------------------ callers that interleave
\* A caller in the middle of a call: pc is the engine call or cache access it
\* is about to make, a its arguments, local what it has read so far.  Callers
\* run on threads (the async facade hands each call to a worker thread), so
\* another caller's steps may fall between two steps of one call.
Idle == [pc |-> "idle", a |-> <<>>, local |-> <<>>, result |-> NULL, error |-> "ok"]
At(p, pc) == threads[p].pc = pc
Done(p) == At(p, "done")
Goto(p, pc) == threads' = [threads EXCEPT ![p].pc = pc]
Finish(p, result, error) ==
    threads' = [threads EXCEPT ![p].pc = "done", ![p].result = result,
                               ![p].error = error]

\* get_or_create_collection, line 28 and the constructor's checks, lines 25-48
GocBegin(p, a) ==
    /\ At(p, "idle")
    /\ IF CacheHit(collections_cache, a.name, a.recreate)
       THEN threads' = [threads EXCEPT ![p].pc = "done", ![p].a = a,
                            ![p].result = Some(collections_cache[a.name])]
       ELSE IF ConstructorChecks(a) # "ok"
            THEN threads' = [threads EXCEPT ![p].pc = "done", ![p].a = a,
                                 ![p].error = ConstructorChecks(a)]
            ELSE threads' = [threads EXCEPT ![p].pc = "recreate", ![p].a = a]
    /\ UNCHANGED <<store_vars, collection_vars, calls, last>>

\* __init__, line 52: recreate and self.name in self.db.table_names()
GocRecreate(p) ==
    /\ At(p, "recreate")
    /\ IF threads[p].a.recreate /\ threads[p].a.name \in DOMAIN db_tables
       THEN Goto(p, "drop") ELSE Goto(p, "ensure")
    /\ UNCHANGED <<store_vars, collection_vars, calls, last>>

\* __init__, lines 53-57: drop_table; a table that is no longer there cannot
\* be dropped
GocDrop(p) ==
    /\ At(p, "drop")
    /\ IF threads[p].a.name \in DOMAIN db_tables
       THEN /\ db_tables' = Drop(db_tables, threads[p].a.name)
            /\ Goto(p, "ensure")
       ELSE /\ Finish(p, NULL, "OperationError")
            /\ UNCHANGED db_tables
    /\ UNCHANGED <<collections_cache, instances, collection_vars, calls, last>>

\* _ensure_table_exists, line 64: self.name not in self.db.table_names()
GocEnsure(p) ==
    /\ At(p, "ensure")
    /\ IF threads[p].a.name \notin DOMAIN db_tables
       THEN Goto(p, "create") ELSE Goto(p, "open")
    /\ UNCHANGED <<store_vars, collection_vars, calls, last>>

\* _ensure_table_exists, lines 87-90 and 93-94: create_table with mode
\* "create" raises when the directory already holds the name
GocCreate(p) ==
    /\ At(p, "create")
    /\ IF threads[p].a.name \in DOMAIN db_tables
       THEN /\ Finish(p, NULL, "InitializationError")
            /\ UNCHANGED db_tables
       ELSE /\ db_tables' = Put(db_tables, threads[p].a.name, <<>>)
            /\ Goto(p, "store")
    /\ UNCHANGED <<collections_cache, instances, collection_vars, calls, last>>

\* _ensure_table_exists, lines 92-94: open_table
GocOpen(p) ==
    /\ At(p, "open")
    /\ IF threads[p].a.name \notin DOMAIN db_tables
       THEN Finish(p, NULL, "InitializationError")
       ELSE Goto(p, "store")
    /\ UNCHANGED <<store_vars, collection_vars, calls, last>>

\* get_or_create_collection, lines 40-41: the cache is written and the
\* instance returned
GocStore(p) ==
    LET collection_instance == Instance(instances + 1, threads[p].a.name)
    IN /\ At(p, "store")
       /\ instances' = instances + 1
       /\ collections_cache' =
              Put(collections_cache, threads[p].a.name, collection_instance)
       /\ Finish(p, Some(collection_instance), "ok")
       /\ last' = StoreCall("get_or_create_collection", threads[p].a,
                            Some(collection_instance), "ok")
       /\ UNCHANGED <<db_tables, collection_vars, calls>>

\* table.delete(final_filter), line 211, taking as many rows as were counted
TableDeleteCounted(t, final_filter, num_matched) ==
    SubSeq(t, num_matched + 1, Len(t))

\* table.delete(final_filter), line 211: the rows the predicate matches now,
\* however many were counted before
TableDelete(t, final_filter, num_matched) == DeleteWhere(t, Val(final_filter))

\* prune_memories, lines 229-242: the predicate is built from the clock
PruneBegin(p, a) ==
    /\ At(p, "idle")
    /\ LET local == [final_filter |-> PruneFilter(a, now), num_to_prune |-> 0,
                     num_matched |-> 0]
       IN IF NothingToDo(a) \/ ~TruthyText(PruneFilter(a, now))
          THEN threads' = [threads EXCEPT ![p].pc = "done", ![p].a = a,
                               ![p].local = local, ![p].result = Some(0)]
          ELSE threads' = [threads EXCEPT ![p].pc = "count", ![p].a = a,
                               ![p].local = local]
    /\ UNCHANGED <<store_vars, collection_vars, calls, last>>

\* prune_memories, lines 246-248: count(final_filter)
PruneCount(p) ==
    LET n == CountCall(table, threads[p].local.final_filter)
    IN /\ At(p, "count")
       /\ IF ~threads[p].a.dry_run /\ n > 0
          THEN threads' = [threads EXCEPT ![p].pc = "search",
                                          ![p].local.num_to_prune = n]
          ELSE threads' = [threads EXCEPT ![p].pc = "done",
                                          ![p].local.num_to_prune = n,
                                          ![p].result = Some(n)]
       /\ UNCHANGED <<store_vars, collection_vars, calls, last>>

\* delete, lines 209-210: the rows the predicate matches are counted again
PruneSearch(p) ==
    LET n == Len(SelectWhere(table, Val(threads[p].local.final_filter)))
    IN /\ At(p, "search")
       /\ IF n > 0
          THEN threads' = [threads EXCEPT ![p].pc = "delete",
                                          ![p].local.num_matched = n]
          ELSE threads' = [threads EXCEPT ![p].pc = "done",
                                          ![p].result = Some(0)]
       /\ UNCHANGED <<store_vars, collection_vars, calls, last>>

\* delete, lines 211-213: table.delete(final_filter); return num_matched
PruneDelete(p) ==
    /\ At(p, "delete")
    /\ table' = TableDelete(table, threads[p].local.final_filter,
                            threads[p].local.num_matched)
    /\ Finish(p, Some(threads[p].local.num_matched), "ok")
    /\ UNCHANGED <<now, uuid_count, config, store_vars, calls, last>>

\* ----------------------------------------------------------------- clock
Tick ==
    /\ now < MaxTime
    /\ now' = now + 1
    /\ UNCHANGED <<table, uuid_count, config, calls, last, store_vars, threads>>

\* ---------------------------------------------------------------- inputs
Absent == [present |-> FALSE, v |-> NULL]
Given(o) == [present |-> TRUE, v |-> o]

\* kwargs built from one choice per field
Kwargs(ch) == [f \in {g \in DOMAIN ch : ch[g].present} |-> ch[f].v]

Zeros(n) == [i \in 1..n |-> 0]

CallerIds == {<<"a">>}
UnknownId == <<"z">>
IdChoices == {Absent, Given(Some(<<>>))} \cup {Given(Some(i)) : i \in CallerIds}
VectorChoices == {Absent, Given(NULL)}
                 \cup {Given(Some(Zeros(n))) :
                          n \in (VectorDimension - 1)..(VectorDimension + 1)}
ContentChoices == {Absent, Given(Some("")), Given(Some("x"))}
AccessedChoices == {Absent, Given(Some(0))}

\* the kwargs add is called with: every way of giving or leaving out the id,
\* the vector and the content, and records that give the optional fields too
AddInputs ==
    {Kwargs([id |-> i, vector |-> v, content |-> c]) :
        i \in IdChoices, v \in VectorChoices, c \in ContentChoices}
    \cup
    {Kwargs([id |-> i, vector |-> Given(Some(Zeros(VectorDimension))),
             content |-> Given(Some("x")), importance_score |-> Given(Some(1)),
             timestamp_created |-> Given(Some(0)), timestamp_last_accessed |-> ta]) :
        i \in IdChoices, ta \in AccessedChoices}

\* the ids a caller looks up or deletes: its own, those add returned, and one
\* that was never stored
LookupIds == CallerIds \cup {Uuid4(n) : n \in 0..(uuid_count - 1)} \cup {UnknownId}
SelectChoices == {NULL, Some({"vector", "content"}),
                  Some({"id", "timestamp_last_accessed"})}
Fragments == {NULL, Some(EmptyText), Some(Cmp("=", "content", "x"))}

Thresholds == {NULL, Some(0), Some(1)}
PruneFragments == {NULL, Some(EmptyText), Some(Cmp("<", "timestamp_created", 1))}
PruneInputs ==
    [max_age_seconds : Thresholds, min_importance_score : Thresholds,
     max_last_accessed_seconds : Thresholds, filter_logic : {"AND", "or"},
     custom_filter_sql_addon : PruneFragments, dry_run : BOOLEAN]

\* rows a collection holds after adds that gave every field
PruneRows ==
    {[id |-> Some(<<"r">>), vector |-> Some(Zeros(VectorDimension)),
      content |-> Some("x"), importance_score |-> s, timestamp_created |-> Some(tc),
      timestamp_last_accessed |-> ta] :
        s \in {NULL, Some(0)}, tc \in {0, 1}, ta \in {NULL, Some(1)}}

\* tables of n such rows, the i-th with the i-th generated id
PruneTables(n) ==
    {[i \in 1..n |-> [rows[i] EXCEPT !["id"] = Some(Uuid4(i - 1))]] :
        rows \in [1..n -> PruneRows]}

\* the entries of a batch: valid with and without an id, a vector of the
\* wrong length, a null vector, and text left to the embedding function
MaxBatch == 2
BatchEntries ==
    {Kwargs([id |-> i, vector |-> Given(Some(Zeros(VectorDimension))),
             content |-> Given(Some("x")),
             timestamp_created |-> IF i = Absent THEN Absent ELSE Given(Some(0))]) :
        i \in IdChoices \ {Given(Some(<<>>))}}
    \cup
    {Kwargs([id |-> Absent, vector |-> v, content |-> Given(Some("x"))]) :
        v \in {Given(Some(Zeros(VectorDimension + 1))), Given(NULL), Absent}}
BatchInputs == UNION {[1..n -> BatchEntries] : n \in 0..MaxBatch}

\* the arguments query is called with
QueryVectors == {NULL, Some(<<>>)}
                \cup {Some(Zeros(n)) : n \in VectorDimension..(VectorDimension + 1)}
QuerySelectChoices == SelectChoices \cup {Some({"content", "timestamp_last_accessed"})}
QueryInputs ==
    [query_vector : QueryVectors, query_text : {NULL, Some("x")}, k : 1..2,
     filter_sql : {NULL, Some(Cmp("=", "content", "x"))},
     select_columns : QuerySelectChoices, include_vector : BOOLEAN]

\* where the engine may raise during a query: nowhere when the vector is one
\* it can search with; the source does not say what it does with another
FaultChoices(a) ==
    IF Searchable(a.query_vector) THEN {"none"} ELSE {"none", "search", "to_df"}

\* collection names, dimensions and records the store's callers use
StoreNames == {"m", "n"}
DimensionChoices == {NULL, Some(VectorDimension)}
StoreRow == [id |-> Some(<<"a">>), vector |-> Some(Zeros(VectorDimension)),
             content |-> Some("x"), timestamp_created |-> Some(0)]
StoreAddInputs == {StoreRow,
                   [StoreRow EXCEPT !["vector"] = Some(Zeros(VectorDimension + 1))]}

\* the table directory a store is opened on: empty, or holding a table that
\* another store session created and filled
StoredRow == [f \in Fields |-> Get(StoreRow, f)]
DirectoryChoices == {<<>>, [name \in {"n"} |-> <<StoredRow>>]}

\* ids with and without a quote in them, and tables holding records with such
\* ids (add stores an id as it is given)
QuoteIds == {<<"a">>, <<"o", "'", "k">>}
MaxRows == 2
QuotedRows ==
    {[f \in Fields |->
         IF f = "id" THEN Some(i)
         ELSE IF f = "timestamp_last_accessed" THEN ta ELSE Get(StoreRow, f)] :
        i \in QuoteIds, ta \in {NULL, Some(0)}}
QuotedTables == UNION {[1..n -> QuotedRows] : n \in 0..MaxRows}

\* where the engine may raise during a lookup and during a query, when the
\* storage under it fails
LookupFaults == {"none", "lookup", "update"}
QueryFaults == {"none", "search", "to_df", "update"}
FaultQueryInputs ==
    [query_vector : {Some(Zeros(VectorDimension))}, query_text : {NULL}, k : 1..2,
     filter_sql : {NULL, Some(Cmp("=", "content", "x"))},
     select_columns : QuerySelectChoices \cup {Some({"content"})},
     include_vector : BOOLEAN]

\* structured filters: one condition per operator key, $and / $or of two
\* filters, nested once, the empty filter, and a key that is not recognized
FilterConditions ==
    {FieldIs("content", "x"), FieldOp("importance_score", "$gt", 0),
     FieldOp("importance_score", "$gte", 1), FieldOp("timestamp_created", "$lt", 1),
     FieldOp("timestamp_created", "$lte", 0), FieldOp("id", "$contains", <<"a">>)}
FilterPairs ==
    {AllOf(<<x, y>>) : x, y \in FilterConditions}
    \cup {AnyOf(<<x, y>>) : x, y \in FilterConditions}
FlatFilters == FilterConditions \cup {f \in FilterPairs : f.args[1] # f.args[2]}
NestedFilters ==
    {AllOf(<<x, y>>) : x \in FlatFilters, y \in FilterConditions}
    \cup {AnyOf(<<x, y>>) : x \in FlatFilters, y \in FilterConditions}
    \cup {AllOf(<<x, y>>) : x \in FilterConditions, y \in FlatFilters}
    \cup {AnyOf(<<x, y>>) : x \in FilterConditions, y \in FlatFilters}
FilterInputs ==
    {NULL, Some(FieldOp("content", "$ne", "x"))}
    \cup {Some(f) : f \in FlatFilters \cup NestedFilters}

\* records the filters tell apart, and the tables that hold them
FilterRows(i) ==
    {[f \in Fields |->
         CASE f = "id" -> Some(i)
           [] f = "content" -> Some(c)
           [] f = "importance_score" -> s
           [] f = "timestamp_created" -> Some(tc)
           [] OTHER -> Get(StoreRow, f)] :
        c \in {"x", "y"}, s \in {NULL, Some(0), Some(1)}, tc \in {0, 1}}
FilterTables ==
    {<<>>} \cup {<<r>> : r \in FilterRows(<<"a">>) \cup FilterRows(<<"b">>)}
    \cup {<<r, q>> : r \in FilterRows(<<"b">>),
                     q \in {x \in FilterRows(<<"b", "a">>) :
                               x["content"] = Some("x") /\ x["timestamp_created"] = Some(1)}}
FilterQuery ==
    [query_vector |-> Some(Zeros(VectorDimension)), query_text |-> NULL,
     k |-> MaxRows, filter_sql |-> NULL, select_columns |-> NULL,
     include_vector |-> FALSE]

\* what a constructor may be given, and where the engine may raise under it;
\* the store always passes its own connection (store.py line 36)
ConstructorInputs ==
    [name : StoreNames, vector_dimension : DimensionChoices, recreate : BOOLEAN,
     db_connection : BOOLEAN, base_schema : {"MemoryEntrySchema", "BaseModel"},
     ef_dimension : {NULL, Some(VectorDimension + 1)}]
StoreConstructorInputs == {a \in ConstructorInputs : a.db_connection}
ConstructorFaults == {"none", "drop", "create", "open"}
DeleteCollectionFaults == {"none", "table_names", "drop"}

\* callers that interleave, and what they call with
MaxThreads == 2
Threads == 1..MaxThreads
RaceConstructorInputs ==
    {ConstructorArgs(name, Some(VectorDimension), recreate) :
        name \in StoreNames, recreate \in BOOLEAN}
RacePruneInputs ==
    {[max_age_seconds |-> age, min_importance_score |-> score,
      max_last_accessed_seconds |-> NULL, filter_logic |-> logic,
      custom_filter_sql_addon |-> NULL, dry_run |-> dry] :
        age \in {NULL, Some(1)}, score \in {NULL, Some(1)},
        logic \in {"AND", "OR"}, dry \in BOOLEAN}

\* ------------------------------------------------------------- behaviour
\* a collection used on its own: no store, no other table
NoStore == db_tables = <<>> /\ collections_cache = <<>> /\ instances = 0

\* every call runs from its first line to its last with no other call between
NoThreads == threads = <<>>

Init ==
    /\ table = <<>>
    /\ now = 1
    /\ uuid_count = 0
    /\ embedding_function \in {NULL, Some("content")}
    /\ update_last_accessed_on_query \in BOOLEAN
    /\ calls = 0
    /\ last = Call("init", <<>>, NULL, "ok", FALSE, <<>>, NoPrev)
    /\ NoStore
    /\ NoThreads

\* the collection serves MaxCalls calls
AddStep ==
    /\ calls < MaxCalls
    /\ \E d \in AddInputs : Add(d)
    /\ UNCHANGED <<store_vars, threads>>

GetByIdStep ==
    /\ calls < MaxCalls
    /\ \E e \in LookupIds, sc \in SelectChoices, t2 \in now..Min(now + 1, MaxTime) :
          GetById(e, sc, "none", t2)
    /\ UNCHANGED <<store_vars, threads>>

DeleteStep ==
    /\ calls < MaxCalls
    /\ \E e \in {NULL} \cup {Some(i) : i \in LookupIds}, f \in Fragments : Delete(e, f)
    /\ UNCHANGED <<store_vars, threads>>

CountStep ==
    /\ calls < MaxCalls
    /\ \E f \in Fragments : Count(f)
    /\ UNCHANGED <<store_vars, threads>>

PruneStep ==
    /\ calls < MaxCalls
    /\ \E a \in PruneInputs : PruneMemories(a)
    /\ UNCHANGED <<store_vars, threads>>

\* the caller of a dry run goes on to the real prune, with the same arguments
PruneAfterDryRun ==
    /\ last.op = "prune_memories"
    /\ last.args.dry_run
    /\ PruneMemories([last.args EXCEPT !.dry_run = FALSE])
    /\ UNCHANGED <<store_vars, threads>>

AddBatchStep ==
    /\ calls < MaxCalls
    /\ \E entries \in BatchInputs : AddBatch(entries)
    /\ UNCHANGED <<store_vars, threads>>

QueryStep ==
    /\ calls < MaxCalls
    /\ \E a \in QueryInputs, t2 \in now..Min(now + 1, MaxTime) :
          \E fault \in FaultChoices(a) : Query(a, fault, t2)
    /\ UNCHANGED <<store_vars, threads>>

\* lookups, queries and deletes while the engine may fail and ids may hold
\* quotes
GetByIdFaultStep ==
    /\ calls < MaxCalls
    /\ \E e \in QuoteIds \cup {UnknownId}, sc \in SelectChoices,
          fault \in LookupFaults, t2 \in now..Min(now + 1, MaxTime) :
          GetById(e, sc, fault, t2)
    /\ UNCHANGED <<store_vars, threads>>

QueryFaultStep ==
    /\ calls < MaxCalls
    /\ \E a \in FaultQueryInputs, fault \in QueryFaults,
          t2 \in now..Min(now + 1, MaxTime) : Query(a, fault, t2)
    /\ UNCHANGED <<store_vars, threads>>

DeleteQuotedStep ==
    /\ calls < MaxCalls
    /\ \E e \in QuoteIds : Delete(Some(e), NULL)
    /\ UNCHANGED <<store_vars, threads>>

\* queries with a structured filter
QueryFiltersStep ==
    /\ calls < MaxCalls
    /\ \E filters \in FilterInputs, t2 \in now..Min(now + 1, MaxTime) :
          QueryFilters(FilterQuery, filters, t2)
    /\ UNCHANGED <<store_vars, threads>>

\* the store serves MaxCalls calls
GetOrCreateCollectionStep ==
    /\ calls < MaxCalls
    /\ \E name \in StoreNames, dim \in DimensionChoices, recreate \in BOOLEAN :
          GetOrCreateCollection(ConstructorArgs(name, dim, recreate), "none")
    /\ UNCHANGED threads

ConstructCollectionStep ==
    /\ calls < MaxCalls
    /\ \E name \in StoreNames, dim \in DimensionChoices, recreate \in BOOLEAN :
          ConstructCollection(ConstructorArgs(name, dim, recreate), "none")
    /\ UNCHANGED threads

GetCollectionStep ==
    /\ calls < MaxCalls
    /\ \E name \in StoreNames : GetCollection(name)
    /\ UNCHANGED threads

ListCollectionsStep == calls < MaxCalls /\ ListCollections /\ UNCHANGED threads

DeleteCollectionStep ==
    /\ calls < MaxCalls
    /\ \E name \in StoreNames : DeleteCollection(name, "none")
    /\ UNCHANGED threads

\* the store and the constructor on an engine that may fail, with every kind
\* of constructor argument
GetOrCreateFaultStep ==
    /\ calls < MaxCalls
    /\ \E a \in StoreConstructorInputs, fault \in ConstructorFaults :
          GetOrCreateCollection(a, fault)
    /\ UNCHANGED threads

ConstructFaultStep ==
    /\ calls < MaxCalls
    /\ \E a \in ConstructorInputs, fault \in ConstructorFaults :
          ConstructCollection(a, fault)
    /\ UNCHANGED threads

DeleteCollectionFaultStep ==
    /\ calls < MaxCalls
    /\ \E name \in StoreNames, fault \in DeleteCollectionFaults :
          DeleteCollection(name, fault)
    /\ UNCHANGED threads

CollectionAddStep ==
    /\ calls < MaxCalls
    /\ \E name \in StoreNames, d \in StoreAddInputs : CollectionAdd(name, d)
    /\ UNCHANGED threads

\* the steps of callers that interleave
GocBeginStep == \E p \in Threads, a \in RaceConstructorInputs : GocBegin(p, a)
GocRecreateStep == \E p \in Threads : GocRecreate(p)
GocDropStep == \E p \in Threads : GocDrop(p)
GocEnsureStep == \E p \in Threads : GocEnsure(p)
GocCreateStep == \E p \in Threads : GocCreate(p)
GocOpenStep == \E p \in Threads : GocOpen(p)
GocStoreStep == \E p \in Threads : GocStore(p)

PruneBeginStep == \E p \in Threads, a \in RacePruneInputs : PruneBegin(p, a)
PruneCountStep == \E p \in Threads : PruneCount(p)
PruneSearchStep == \E p \in Threads : PruneSearch(p)
PruneDeleteStep == \E p \in Threads : PruneDelete(p)

\* every operation of the collection and of the store
Next ==
    \/ AddStep \/ AddBatchStep \/ QueryStep \/ GetByIdStep \/ DeleteStep
    \/ CountStep \/ PruneStep \/ PruneAfterDryRun \/ Tick
    \/ GetByIdFaultStep \/ QueryFaultStep \/ DeleteQuotedStep \/ QueryFiltersStep
    \/ GetOrCreateCollectionStep \/ ConstructCollectionStep \/ GetCollectionStep
    \/ ListCollectionsStep \/ DeleteCollectionStep \/ CollectionAddStep
    \/ GetOrCreateFaultStep \/ ConstructFaultStep \/ DeleteCollectionFaultStep
    \/ GocBeginStep \/ GocRecreateStep \/ GocDropStep \/ GocEnsureStep
    \/ GocCreateStep \/ GocOpenStep \/ GocStoreStep
    \/ PruneBeginStep \/ PruneCountStep \/ PruneSearchStep \/ PruneDeleteStep

Spec == Init /\ [][Next]_vars

\* add, get_by_id, delete and count on a fresh collection
NextCollection == AddStep \/ GetByIdStep \/ DeleteStep \/ CountStep \/ Tick

SpecCollection == Init /\ [][NextCollection]_vars

\* prune on a collection that has served all but its last call and holds the
\* rows those calls left
InitPrune ==
    /\ calls = MaxCalls - 1
    /\ \E n \in 0..calls : table \in PruneTables(n) /\ uuid_count = n
    /\ now = 1
    /\ embedding_function = Some("content")
    /\ update_last_accessed_on_query \in BOOLEAN
    /\ last = Call("init", <<>>, NULL, "ok", FALSE, <<>>, NoPrev)
    /\ NoStore
    /\ NoThreads

NextPrune == PruneStep \/ PruneAfterDryRun \/ Tick

SpecPrune == InitPrune /\ [][NextPrune]_vars

\* add and add_batch on a fresh collection
NextBatch == AddStep \/ AddBatchStep \/ CountStep \/ Tick

SpecBatch == Init /\ [][NextBatch]_vars

\* every operation of the collection, on a collection that has served all but
\* its last call and holds the rows those calls left
InitLifecycle ==
    /\ calls = MaxCalls - 1
    /\ \E n \in 0..calls : table \in PruneTables(n) /\ uuid_count = n
    /\ now = 1
    /\ embedding_function \in {NULL, Some("content")}
    /\ update_last_accessed_on_query \in BOOLEAN
    /\ last = Call("init", <<>>, NULL, "ok", FALSE, <<>>, NoPrev)
    /\ NoStore
    /\ NoThreads

NextLifecycle ==
    \/ AddStep \/ AddBatchStep \/ QueryStep \/ GetByIdStep \/ DeleteStep
    \/ CountStep \/ PruneStep \/ PruneAfterDryRun \/ Tick

SpecLifecycle == InitLifecycle /\ [][NextLifecycle]_vars

\* lookups, queries and deletes on a collection that has served all but its
\* last call, holds records whose ids may carry quotes, and sits on an engine
\* that may fail
InitFaults ==
    /\ calls = MaxCalls - 1
    /\ table \in QuotedTables
    /\ uuid_count = 0
    /\ now = 1
    /\ embedding_function = NULL
    /\ update_last_accessed_on_query \in BOOLEAN
    /\ last = Call("init", <<>>, NULL, "ok", FALSE, <<>>, NoPrev)
    /\ NoStore
    /\ NoThreads

NextFaults == GetByIdFaultStep \/ QueryFaultStep \/ DeleteQuotedStep \/ Tick

SpecFaults == InitFaults /\ [][NextFaults]_vars

\* queries with structured filters on a collection that has served all but
\* its last call
InitFilters ==
    /\ calls = MaxCalls - 1
    /\ table \in FilterTables
    /\ uuid_count = 0
    /\ now = 1
    /\ embedding_function = NULL
    /\ update_last_accessed_on_query = FALSE
    /\ last = Call("init", <<>>, NULL, "ok", FALSE, <<>>, NoPrev)
    /\ NoStore
    /\ NoThreads

NextFilters == QueryFiltersStep \/ Tick

SpecFilters == InitFilters /\ [][NextFilters]_vars

\* a store opened on a table directory, its cache empty
InitStore ==
    /\ db_tables \in DirectoryChoices
    /\ collections_cache = <<>>
    /\ instances = 0
    /\ calls = 0
    /\ table = <<>>
    /\ now = 1
    /\ uuid_count = 0
    /\ embedding_function = NULL
    /\ update_last_accessed_on_query = FALSE
    /\ last = StoreCall("init", <<>>, NULL, "ok")
    /\ NoThreads

NextStore ==
    \/ GetOrCreateCollectionStep \/ ConstructCollectionStep \/ GetCollectionStep
    \/ ListCollectionsStep \/ DeleteCollectionStep \/ CollectionAddStep

SpecStore == InitStore /\ [][NextStore]_vars

\* the same store on an engine that may fail
NextStoreFaults ==
    \/ GetOrCreateFaultStep \/ ConstructFaultStep \/ DeleteCollectionFaultStep
    \/ GetCollectionStep \/ CollectionAddStep

SpecStoreFaults == InitStore /\ [][NextStoreFaults]_vars

\* callers of get_or_create_collection that interleave, on a store whose cache
\* is empty
InitCreateRace ==
    /\ db_tables \in DirectoryChoices
    /\ collections_cache = <<>>
    /\ instances = 0
    /\ calls = 0
    /\ table = <<>>
    /\ now = 1
    /\ uuid_count = 0
    /\ embedding_function = NULL
    /\ update_last_accessed_on_query = FALSE
    /\ last = StoreCall("init", <<>>, NULL, "ok")
    /\ threads = [p \in Threads |-> Idle]

NextCreateRace ==
    \/ GocBeginStep \/ GocRecreateStep \/ GocDropStep \/ GocEnsureStep
    \/ GocCreateStep \/ GocOpenStep \/ GocStoreStep

SpecCreateRace == InitCreateRace /\ [][NextCreateRace]_vars

\* callers of prune_memories that interleave, on a collection that holds the
\* rows earlier adds left; last.before keeps the table they start from
InitPruneRace ==
    /\ \E n \in 1..MaxRows : table \in PruneTables(n) /\ uuid_count = n
    /\ now = 1
    /\ embedding_function = Some("content")
    /\ update_last_accessed_on_query = FALSE
    /\ calls = 0
    /\ last = Call("init", <<>>, NULL, "ok", FALSE, table, NoPrev)
    /\ NoStore
    /\ threads = [p \in Threads |-> Idle]

NextPruneRace ==
    PruneBeginStep \/ PruneCountStep \/ PruneSearchStep \/ PruneDeleteStep \/ Tick

SpecPruneRace == InitPruneRace /\ [][NextPruneRace]_vars

\* ================================================================ claims
\* kwargs that carry a vector of the collection's dimension
ValidVectorInput(d) ==
    Has(d, "vector") /\ d["vector"] # NULL /\ Len(Val(d["vector"])) = VectorDimension

\* kwargs whose id add replaces by a generated one
GeneratedId(d) == ~Has(d, "id") \/ ~TruthyId(d["id"])

\* get_by_id was called on the id the add right before it returned
LookupAfterAdd ==
    /\ last.op = "get_by_id"
    /\ last.prev.op = "add"
    /\ ValidVectorInput(last.prev.args)

\* how many rows of t carry the id
Holders(t, id) == Cardinality({i \in 1..Len(t) : t[i]["id"] = Some(id)})
FirstHolder(t, id) ==
    t[CHOOSE i \in 1..Len(t) :
        /\ t[i]["id"] = Some(id)
        /\ \A j \in 1..(i - 1) : t[j]["id"] # Some(id)]

MismatchedAdd ==
    /\ last.op = "add"
    /\ Has(last.args, "vector")
    /\ last.args["vector"] # NULL
    /\ Len(Val(last.args["vector"])) # VectorDimension

\* C2: an add whose non-null vector has a length other than the dimension
\* fails with SchemaError and leaves the table, hence the count, as it was.
C2_DimensionMismatch ==
    MismatchedAdd =>
        /\ last.error = "SchemaError"
        /\ table = last.before
        /\ CountCall(table, NULL) = CountCall(last.before, NULL)

\* C2 witness: a mismatched add refused on a collection that holds a row
C2_Witness == MismatchedAdd /\ last.error = "SchemaError" /\ Len(last.before) > 0

\* an add with no usable vector: the field absent, or present but null
NoUsableVector(d) == ~Has(d, "vector") \/ d["vector"] = NULL

\* C3 as stated: without an embedding function, every add with no usable
\* vector (absent, or present but null) fails with EmbeddingError and inserts
\* nothing.
C3_Original ==
    (last.op = "add" /\ embedding_function = NULL /\ NoUsableVector(last.args)) =>
        last.error = "EmbeddingError" /\ table = last.before

\* C4 as stated: with an embedding function, every add with no non-null
\* vector whose source field is missing or empty fails with EmbeddingError
\* and inserts nothing.
C4_Original ==
    (/\ last.op = "add"
     /\ embedding_function # NULL
     /\ NoUsableVector(last.args)
     /\ ~TruthyStr(Get(last.args, SourceColumn(embedding_function)))) =>
        last.error = "EmbeddingError" /\ table = last.before

\* C5 as stated: delete(id=X) right after the add that returned X returns 1,
\* lowers the count by one and leaves no entry with id X; delete of an id no
\* entry carries returns 0 without error and changes nothing.
C5_Original ==
    (last.op = "delete" /\ last.args.entry_id # NULL /\ last.args.filter_sql = NULL) =>
        LET id == Val(last.args.entry_id)
        IN /\ last.prev.op = "add" =>
                /\ last.error = "ok"
                /\ last.result = Some(1)
                /\ Len(table) = Len(last.before) - 1
                /\ Holders(table, id) = 0
           /\ Holders(last.before, id) = 0 =>
                /\ last.error = "ok"
                /\ last.result = Some(0)
                /\ table = last.before

\* ---------------------------------------------------------- prune claims
Pruned == last.op = "prune_memories"
RealPrune == Pruned /\ ~last.args.dry_run

\* what the caller supplied; an empty string is no fragment
HasAge(a) == a.max_age_seconds # NULL
HasImportance(a) == a.min_importance_score # NULL
HasStaleness(a) == a.max_last_accessed_seconds # NULL
HasFragment(a) == TruthyText(a.custom_filter_sql_addon)
HasCondition(a) == HasAge(a) \/ HasImportance(a) \/ HasStaleness(a)
Supplied(a) == HasCondition(a) \/ HasFragment(a)
JoinedByAnd(a) == a.filter_logic \in {"AND", "and"}

\* the three conditions as the specification words them, on a row at time ts
TooOld(row, a, ts) ==
    Val(row["timestamp_created"]) < ts - Val(a.max_age_seconds)
Unimportant(row, a) ==
    \/ row["importance_score"] = NULL
    \/ Val(row["importance_score"]) < Val(a.min_importance_score)
Stale(row, a, ts) ==
    \/ row["timestamp_last_accessed"] = NULL
    \/ Val(row["timestamp_last_accessed"]) < ts - Val(a.max_last_accessed_seconds)

ConditionsHold(row, a, ts) ==
    IF JoinedByAnd(a)
    THEN /\ HasAge(a) => TooOld(row, a, ts)
         /\ HasImportance(a) => Unimportant(row, a)
         /\ HasStaleness(a) => Stale(row, a, ts)
    ELSE \/ HasAge(a) /\ TooOld(row, a, ts)
         \/ HasImportance(a) /\ Unimportant(row, a)
         \/ HasStaleness(a) /\ Stale(row, a, ts)

\* (the supplied conditions joined by the operator) AND the raw fragment
Wanted(row, a, ts) ==
    /\ HasCondition(a) => ConditionsHold(row, a, ts)
    /\ HasFragment(a) => Matches(Val(a.custom_filter_sql_addon), row)

CountWanted(t, a, ts) == Cardinality({i \in 1..Len(t) : Wanted(t[i], a, ts)})

OnlyImportance(a) ==
    HasImportance(a) /\ ~HasAge(a) /\ ~HasStaleness(a) /\ ~HasFragment(a)

\* C6: a real prune with only a minimum importance T removes exactly the
\* entries whose importance_score is below T or missing, keeps the others,
\* and returns the drop in count().
C6_PruneByImportance ==
    (RealPrune /\ OnlyImportance(last.args)) =>
        /\ table = SelectSeq(last.before, LAMBDA row : ~Unimportant(row, last.args))
        /\ Val(last.result) = CountCall(last.before, NULL) - CountCall(table, NULL)

\* C6 witness: threshold 0 removed an entry without a score and kept one
\* whose score is 0
C6_Witness ==
    /\ RealPrune /\ OnlyImportance(last.args)
    /\ last.args.min_importance_score = Some(0)
    /\ Len(last.before) = 2 /\ Len(table) = 1
    /\ table[1]["importance_score"] = Some(0)

\* the real prune made right after its dry run
RealAfterDryRun == Pruned /\ last.prev.op = "prune_memories"

\* C7 as stated: a dry run leaves the table as it was, and the real prune that
\* follows it with the same arguments returns the same number.
C7_Original ==
    /\ (Pruned /\ last.args.dry_run) => table = last.before
    /\ RealAfterDryRun => last.result = last.prev.result

\* C7 amended: a dry run leaves the table as it was; the real prune that
\* follows it with the same arguments returns the same number when the
\* arguments give no age and no staleness threshold, and never a smaller
\* number otherwise (the age and staleness cutoffs are taken from the clock
\* at each call).
C7_DryRun ==
    /\ (Pruned /\ last.args.dry_run) => table = last.before
    /\ (RealAfterDryRun /\ ~HasAge(last.args) /\ ~HasStaleness(last.args)) =>
            last.result = last.prev.result
    /\ RealAfterDryRun => Val(last.result) >= Val(last.prev.result)

\* C7 witness: the real prune after a dry run by importance removed rows
C7_Witness ==
    /\ RealAfterDryRun /\ ~HasAge(last.args) /\ ~HasStaleness(last.args)
    /\ Val(last.prev.result) > 0
    /\ Len(table) < Len(last.before)

\* C8 as stated: prune returns 0 without touching storage only when nothing
\* is supplied; with anything supplied, a threshold of 0 included, it counts
\* the matching entries, deletes them unless dry_run, and returns the count.
C8_Original ==
    Pruned =>
        /\ ~Supplied(last.args) =>
              ~last.touched /\ last.result = Some(0) /\ table = last.before
        /\ Supplied(last.args) =>
              /\ last.touched
              /\ Val(last.result) = CountWanted(last.before, last.args, last.at)
              /\ Len(table) = IF last.args.dry_run THEN Len(last.before)
                              ELSE Len(last.before) - Val(last.result)

\* rows of t without a value in col
Missing(t, col) == {i \in 1..Len(t) : t[i][col] = NULL}

\* the condition decides alone: it is the only one, or they are joined by OR
Decides(a, only) == ~HasFragment(a) /\ (only \/ ~JoinedByAnd(a))

\* C9: in the predicate prune sends to the engine, an entry without
\* importance_score satisfies the minimum-importance condition and an entry
\* without timestamp_last_accessed satisfies the maximum-staleness condition,
\* whatever the threshold: a real prune in which that condition decides
\* leaves no such entry.
C9_NullQualifies ==
    (Pruned /\ last.touched) =>
        /\ HasImportance(last.args) =>
              /\ \A i \in Missing(last.before, "importance_score") :
                    Matches(ImportanceCond(Val(last.args.min_importance_score)),
                            last.before[i])
              /\ (RealPrune /\ Decides(last.args, ~HasAge(last.args)
                                                  /\ ~HasStaleness(last.args))) =>
                    Missing(table, "importance_score") = {}
        /\ HasStaleness(last.args) =>
              /\ \A i \in Missing(last.before, "timestamp_last_accessed") :
                    Matches(StalenessCond(Val(last.args.max_last_accessed_seconds),
                                          last.at), last.before[i])
              /\ (RealPrune /\ Decides(last.args, ~HasAge(last.args)
                                                  /\ ~HasImportance(last.args))) =>
                    Missing(table, "timestamp_last_accessed") = {}

\* C9 witness: staleness 0 joined by OR with an importance threshold removed
\* an entry that has a score above the threshold and was never accessed
C9_Witness ==
    /\ RealPrune /\ last.touched
    /\ last.args.max_last_accessed_seconds = Some(0)
    /\ last.args.min_importance_score = Some(0)
    /\ Decides(last.args, FALSE)
    /\ \E i \in Missing(last.before, "timestamp_last_accessed") :
          last.before[i]["importance_score"] # NULL
    /\ table = <<>>

\* C10 as stated: whatever conditions, operator and fragment are supplied, a
\* real prune removes exactly the entries that satisfy (the conditions joined
\* by the operator) AND the fragment, or the one part that is supplied.
C10_Original ==
    (RealPrune /\ Supplied(last.args)) =>
        table = SelectSeq(last.before,
                          LAMBDA row : ~Wanted(row, last.args, last.at))

\* ----------------------------------------------------------- store claims
GotOrCreated == last.op = "get_or_create_collection" /\ last.error = "ok"
WasCached == last.args.name \in DOMAIN last.cache_before

\* C11: get_or_create_collection returns the cached instance itself for a
\* cached name when recreate is false; with recreate it returns an instance
\* no earlier call returned, and the cache then maps the name to it.
C11_GetOrCreate ==
    GotOrCreated =>
        LET name == last.args.name
        IN /\ (WasCached /\ ~last.args.recreate) =>
                 /\ last.result = Some(last.cache_before[name])
                 /\ collections_cache = last.cache_before
           /\ last.args.recreate =>
                 /\ Val(last.result).handle > last.made_before
                 /\ WasCached => Val(last.result) # last.cache_before[name]
                 /\ name \in DOMAIN collections_cache
                 /\ collections_cache[name] = Val(last.result)

\* C11 witness: recreate on a cached name put a new instance in the cache
C11_Witness ==
    /\ GotOrCreated /\ WasCached /\ last.args.recreate
    /\ collections_cache[last.args.name] = Val(last.result)
    /\ collections_cache[last.args.name] # last.cache_before[last.args.name]

\* a collection was constructed, by the store or by the caller, with recreate
Recreated ==
    /\ last.op \in {"get_or_create_collection", "AgentMemoryCollection"}
    /\ last.error = "ok"
    /\ last.args.recreate

HeldEntries ==
    /\ last.args.name \in DOMAIN last.tables_before
    /\ Len(last.tables_before[last.args.name]) > 0

\* C12: after a collection is constructed or obtained with recreate on a name
\* whose table holds entries, the collection's table exists and its count is
\* 0: none of the earlier entries is in it.
C12_RecreateEmpties ==
    (Recreated /\ HeldEntries) =>
        /\ last.args.name \in DOMAIN db_tables
        /\ CountCall(db_tables[last.args.name], NULL) = 0
        /\ db_tables[last.args.name] = <<>>

\* C12 witness: the store recreated a collection that held an entry
C12_Witness ==
    /\ Recreated /\ HeldEntries
    /\ last.op = "get_or_create_collection"
    /\ db_tables[last.args.name] = <<>>

\* C13: get_collection returns a manager exactly when the name is in the
\* cache, and then the cached instance; it creates no table, no instance and
\* no cache entry, also for a table that is on disk but not in the cache.
C13_GetCollection ==
    last.op = "get_collection" =>
        /\ (last.result # NULL) <=> WasCached
        /\ WasCached => last.result = Some(last.cache_before[last.args.name])
        /\ db_tables = last.tables_before
        /\ collections_cache = last.cache_before
        /\ instances = last.made_before

\* C13 witness: the name has a table on disk and is not in the cache
C13_Witness ==
    /\ last.op = "get_collection"
    /\ last.args.name \in DOMAIN last.tables_before
    /\ ~WasCached
    /\ last.result = NULL

\* C14: delete_collection returns true; afterwards the name is in neither
\* list_collections nor the cache; a second call on the same name, and a call
\* on a name that never existed, change nothing.
C14_DeleteIdempotent ==
    last.op = "delete_collection" =>
        LET name == last.args.name
            unknown == name \notin DOMAIN last.tables_before /\ ~WasCached
        IN /\ last.error = "ok"
           /\ last.result = Some(TRUE)
           /\ name \notin DOMAIN db_tables
           /\ name \notin DOMAIN collections_cache
           /\ last.args.again => unknown
           /\ unknown => /\ db_tables = last.tables_before
                         /\ collections_cache = last.cache_before

\* C14 witness: the second of two deletes of a name whose table existed
C14_Witness ==
    /\ last.op = "delete_collection"
    /\ last.args.again
    /\ last.result = Some(TRUE)
    /\ db_tables = last.tables_before

\* ------------------------------------------------- query and batch claims
Queried == last.op = "query"
Looked == last.op = "get_by_id"

\* C15 as stated: every query whose vector has a length other than the
\* dimension, the empty vector included, fails with SchemaError before any
\* search is sent to the engine.
C15_Original ==
    (/\ Queried
     /\ last.args.query_vector # NULL
     /\ Len(Val(last.args.query_vector)) # VectorDimension) =>
        /\ last.error = "SchemaError"
        /\ ~last.touched
        /\ table = last.before

\* the projection names the vector
NamesVector(select_columns) ==
    ~Falsy(select_columns) /\ "vector" \in Val(select_columns)

StoredAs(id, record) ==
    \E i \in 1..Len(table) :
        /\ table[i]["id"] = Some(id)
        /\ table[i]["timestamp_last_accessed"] = record["timestamp_last_accessed"]

\* C17 as stated: with access-time updates on, a record that get_by_id or
\* query returns with timestamp_last_accessed carries the value the same call
\* stored for it.
C17_Original ==
    update_last_accessed_on_query =>
        /\ (Looked /\ last.result # NULL
            /\ "timestamp_last_accessed" \in DOMAIN Val(last.result)) =>
              StoredAs(last.args.entry_id, Val(last.result))
        /\ (Queried /\ last.error = "ok") =>
              \A i \in 1..Len(Val(last.result)) :
                 LET record == Val(last.result)[i]
                 IN ({"id", "timestamp_last_accessed"} \subseteq DOMAIN record) =>
                       StoredAs(Val(record["id"]), record)

\* C18 as stated: after any add or add_batch, no two rows of the table share
\* an id and every row's id is non-empty.
C18_Original ==
    (last.op \in {"add", "add_batch"}) =>
        /\ \A i, j \in 1..Len(table) : i # j => table[i]["id"] # table[j]["id"]
        /\ \A i \in 1..Len(table) : TruthyId(table[i]["id"])

\* the ids and creation times of a table's rows, in table order
Created(t) == [i \in 1..Len(t) |-> <<t[i]["id"], t[i]["timestamp_created"]>>]

\* s is t with some elements left out
RECURSIVE IsSubSeq(_, _)
IsSubSeq(s, t) ==
    IF s = <<>> THEN TRUE
    ELSE IF t = <<>> THEN FALSE
         ELSE IF Head(s) = Head(t) THEN IsSubSeq(Tail(s), Tail(t))
              ELSE IsSubSeq(s, Tail(t))

CollectionOps == {"add", "add_batch", "query", "get_by_id", "delete", "count",
                  "prune_memories"}

\* C19: no operation changes the timestamp_created of a row written before:
\* delete and prune only take rows out, every other operation leaves the
\* earlier rows' ids and creation times in place; add and add_batch store a
\* caller-supplied timestamp_created as given.
C19_CreatedImmutable ==
    (last.op \in CollectionOps) =>
        /\ IF last.op \in {"delete", "prune_memories"}
           THEN IsSubSeq(Created(table), Created(last.before))
           ELSE /\ Len(table) >= Len(last.before)
                /\ SubSeq(Created(table), 1, Len(last.before)) = Created(last.before)
        /\ (last.op = "add" /\ last.error = "ok"
            /\ Has(last.args, "timestamp_created")) =>
              table[Len(table)]["timestamp_created"] = last.args["timestamp_created"]
        /\ (last.op = "add_batch" /\ last.error = "ok") =>
              \A i \in 1..Len(last.args) :
                 Has(last.args[i], "timestamp_created") =>
                    table[Len(last.before) + i]["timestamp_created"]
                       = last.args[i]["timestamp_created"]

\* C19 witness: a lookup with access-time updates rewrote a row's access time
\* in a table whose rows were created earlier
C19_Witness ==
    /\ Looked /\ update_last_accessed_on_query
    /\ last.result # NULL
    /\ table # last.before
    /\ Created(table) = Created(last.before)

\* the record preparer refuses the entry
Refused(d) ==
    PrepareDataForAdd(d, embedding_function, Uuid4(0), last.at).error # "ok"

\* C20: add_batch with an entry the preparer refuses fails and leaves the
\* table as it was; otherwise it appends one row per entry, in order, and
\* returns their ids in the same order; an empty batch returns the empty list
\* without touching storage.
C20_AddBatch ==
    (last.op = "add_batch") =>
        LET entries == last.args
            n == Len(last.before)
        IN /\ entries = <<>> =>
                 last.result = Some(<<>>) /\ ~last.touched /\ table = last.before
           /\ (\E i \in 1..Len(entries) : Refused(entries[i])) =>
                 /\ last.error # "ok"
                 /\ table = last.before
                 /\ CountCall(table, NULL) = CountCall(last.before, NULL)
           /\ (entries # <<>> /\ \A i \in 1..Len(entries) : ~Refused(entries[i])) =>
                 /\ last.error = "ok"
                 /\ Len(Val(last.result)) = Len(entries)
                 /\ Len(table) = n + Len(entries)
                 /\ SubSeq(table, 1, n) = last.before
                 /\ \A i \in 1..Len(entries) :
                       /\ table[n + i]["id"] = Some(Val(last.result)[i])
                       /\ ~GeneratedId(entries[i]) =>
                             entries[i]["id"] = Some(Val(last.result)[i])
                       /\ Has(entries[i], "content") =>
                             table[n + i]["content"] = entries[i]["content"]

\* C20 witness: a batch whose first entry is valid and whose second is
\* refused failed, on a table that already held a row
C20_Witness ==
    /\ last.op = "add_batch"
    /\ Len(last.args) = 2
    /\ ~Refused(last.args[1]) /\ Refused(last.args[2])
    /\ last.error # "ok"
    /\ Len(last.before) > 0
    /\ table = last.before

\* ------------------------------------------- failure and quoting claims
\* C21: get_by_id on a constructed collection never raises: it returns the
\* first record that carries the id, or nothing when none does, and when the
\* engine fails during the lookup it returns nothing
C21_GetByIdNeverRaises ==
    Looked =>
        /\ last.error = "ok"
        /\ IF last.args.fault = "lookup" THEN last.result = NULL
           ELSE IF Holders(last.before, last.args.entry_id) = 0
                THEN last.result = NULL
                ELSE /\ last.result # NULL
                     /\ \A f \in DOMAIN Val(last.result) :
                           \/ f = "timestamp_last_accessed"
                           \/ Val(last.result)[f]
                                 = FirstHolder(last.before, last.args.entry_id)[f]

\* the engine failed during the lookup of an id the table holds
C21_Witness ==
    /\ Looked
    /\ last.args.fault = "lookup"
    /\ Holders(last.before, last.args.entry_id) > 0
    /\ last.result = NULL
    /\ last.error = "ok"

\* C22 as stated: every failure of the engine during a query, at whichever
\* engine call it happens (building the search, applying the limit, the
\* filter or the projection, fetching the results), reaches the caller as
\* QueryError
C22_Original ==
    (Queried /\ last.touched /\ last.args.fault \in {"search", "to_df"}) =>
        last.error = "QueryError"

\* the rows a query hands back, and the ids they carry
QueryFound ==
    EngineSearch(last.before, last.args.query_vector, last.args.query_text,
                 last.args.k, last.args.filter_sql)
QueryFoundIds == {QueryFound[i]["id"] : i \in 1..Len(QueryFound)}

\* C25 as stated: with access-time updates on, every record a query returns
\* has its stored timestamp_last_accessed set to the time of the query,
\* whatever the projection, and the records it does not return keep theirs
C25_Original ==
    (Queried /\ update_last_accessed_on_query /\ last.error = "ok") =>
        /\ Len(table) = Len(last.before)
        /\ \A i \in 1..Len(table) :
              table[i]["timestamp_last_accessed"]
                 = IF last.before[i]["id"] \in QueryFoundIds
                   THEN Some(last.at)
                   ELSE last.before[i]["timestamp_last_accessed"]

\* the access-time update reached exactly the rows whose id is one of ids
UpdatedExactly(ids) ==
    /\ Len(table) = Len(last.before)
    /\ \A i \in 1..Len(table) :
          table[i]["timestamp_last_accessed"]
             = IF last.before[i]["id"] \in ids THEN Some(last.at)
               ELSE last.before[i]["timestamp_last_accessed"]

\* C26 as stated: for every id text, ids with quotes included, the predicate
\* that get_by_id, delete and the access-time update send to the engine
\* carries the id as a quoted literal with its quotes doubled, so that it
\* matches exactly the entries whose id equals that text
C26_Original ==
    /\ (Looked /\ last.args.fault = "none") =>
          LET held == Holders(last.before, last.args.entry_id)
          IN /\ (last.result # NULL) <=> (held > 0)
             /\ (update_last_accessed_on_query /\ held > 0) =>
                   UpdatedExactly({Some(last.args.entry_id)})
    /\ (last.op = "delete" /\ last.error = "ok" /\ last.args.filter_sql = NULL) =>
          /\ last.result = Some(Holders(last.before, Val(last.args.entry_id)))
          /\ table = SelectSeq(last.before,
                               LAMBDA row : row["id"] # last.args.entry_id)
    /\ (Queried /\ last.args.fault = "none" /\ last.error = "ok"
        /\ update_last_accessed_on_query /\ Falsy(last.args.select_columns)) =>
          UpdatedExactly(QueryFoundIds)

\* the ids of the entries a filter selects on its own, and those a query
\* handed back
SelectedBy(f) ==
    {last.before[i]["id"] :
        i \in {j \in 1..Len(last.before) :
                  Matches(EngineParse(CompileFilter(f)), last.before[j])}}
HandedBack == {Val(last.result)[i]["id"] : i \in 1..Len(Val(last.result))}
FilteredBy(word) ==
    /\ Queried /\ last.error = "ok"
    /\ Has(last.args, "filters") /\ last.args.filters # NULL
    /\ Val(last.args.filters).k = word

Constructed == last.op \in {"AgentMemoryCollection", "get_or_create_collection"}

\* C23 as stated: every failure at construction time (missing connection,
\* dimension conflict or absence, bad base schema, failure to create, open or
\* drop the table) is an InitializationError, and no operation on a manager
\* that was constructed raises InitializationError
C23_Original ==
    /\ (Constructed /\ last.error # "ok") => last.error = "InitializationError"
    /\ (last.op = "add") => last.error # "InitializationError"

\* C29 as stated: every name in the store's cache has a table in the engine's
\* directory, also after a get_or_create_collection with recreate or a
\* delete_collection that fails part-way
C29_Original == \A name \in DOMAIN collections_cache : name \in DOMAIN db_tables

\* C30 as stated: when delete_collection fails with OperationError the store
\* is as it was before the call: the table exists and get_collection still
\* returns the cached manager
C30_Original ==
    (last.op = "delete_collection" /\ last.error = "OperationError") =>
        /\ db_tables = last.tables_before
        /\ GetCollectionCall(collections_cache, db_tables, last.args.name)
              = GetCollectionCall(last.cache_before, last.tables_before,
                                  last.args.name)

\* ------------------------------------------------------------ race claims
\* two callers have finished a get_or_create_collection of the same name on
\* a store that had not cached it
SameNameCreated(p, q) ==
    /\ p # q /\ Done(p) /\ Done(q)
    /\ threads[p].a.name = threads[q].a.name

\* C27 as stated: two interleaved first-time get_or_create_collection calls
\* for the same uncached name both return a manager without an error, and the
\* cache ends holding the instance of the one that wrote last
C27_Original ==
    \A p, q \in DOMAIN threads :
        SameNameCreated(p, q) =>
            /\ threads[p].error = "ok" /\ threads[p].result # NULL
            /\ threads[q].error = "ok" /\ threads[q].result # NULL
            /\ threads[p].a.name \in DOMAIN collections_cache
            /\ Some(collections_cache[threads[p].a.name]) = last.result

\* the predicate a finished prune deleted by, if it deleted at all
RealPruner(p) ==
    /\ Done(p)
    /\ ~threads[p].a.dry_run
    /\ ~NothingToDo(threads[p].a)
    /\ TruthyText(threads[p].local.final_filter)
Removes(p, row) ==
    RealPruner(p) /\ Matches(Val(threads[p].local.final_filter), row)
AllPruned == DOMAIN threads # {} /\ \A p \in DOMAIN threads : Done(p)

\* C28: when two prune calls with overlapping predicates interleave, both may
\* count the same entries, yet neither fails, every entry that one of the
\* predicates matches is removed and no other entry is, and with the same
\* predicate the table ends as after a single prune
C28_PruneRace ==
    AllPruned =>
        /\ \A p \in DOMAIN threads :
              /\ threads[p].error = "ok"
              /\ threads[p].result # NULL
              /\ Val(threads[p].result) <= threads[p].local.num_to_prune
        /\ table = SelectSeq(last.before,
                             LAMBDA row : \A p \in DOMAIN threads : ~Removes(p, row))
        /\ \A p, q \in DOMAIN threads :
              (/\ p # q /\ RealPruner(p) /\ RealPruner(q)
               /\ threads[p].local.final_filter = threads[q].local.final_filter) =>
                  table = DeleteWhere(last.before, Val(threads[p].local.final_filter))

\* C28 witness: two prunes with the same predicate counted the same entry,
\* one removed it and the other found nothing left, and an entry that the
\* predicate does not match is still there
C28_Witness ==
    /\ AllPruned
    /\ \E p, q \in DOMAIN threads :
          /\ p # q /\ RealPruner(p) /\ RealPruner(q)
          /\ threads[p].local.final_filter = threads[q].local.final_filter
          /\ threads[p].local.num_to_prune = 1
          /\ threads[q].local.num_to_prune = 1
          /\ threads[p].result = Some(1)
          /\ threads[q].result = Some(0)
    /\ Len(last.before) = 2
    /\ Len(table) = 1

====
